---- MODULE Spec2Model ----
(***************************************************************************)
(* A model of localslackirc: the IRC-facing Client (irc.py) and the Slack  *)
(* state holder (slack.py).                                                *)
(*                                                                         *)
(* The two asyncio tasks of irc_listener (from_irc, to_irc) are modelled   *)
(* as two processes that interleave at the awaits of the code.  The remote *)
(* service is the environment: every answer it may give is drawn with \E.  *)
(***************************************************************************)
EXTENDS Integers, Sequences, FiniteSets, TLC

\* ------------------------------------------------------------------ bounds
MaxEvents == 2      \* events the outbound task obtains in SpecSession
MaxCmds == 2        \* command lines the inbound task reads in SpecSession
MaxTs == 2          \* the remote stamps messages and events with 1..MaxTs
MaxBatch == 1       \* raw events in one answer of rtm_read
MaxPages == 2       \* pages the remote cuts a member list into
MaxAddr == 2        \* addresses a list object can get
MaxFails == 2       \* failed connection attempts in a row
MaxChans == 2       \* channels on the remote list in SpecAutojoin
MaxHist == 4        \* timestamps 1..MaxHist of the channel history the remote holds

\* ------------------------------------------------------------ environment
\* The remote channel list (answer of conversations.list).
\* latest is the age in days of the last message of the channel, NoLatest for None.
NoLatest == -1

RemoteChannels ==
    << [id |-> "C1", name |-> "general", is_member |-> TRUE,  is_mpim |-> FALSE, latest |-> 0],
       [id |-> "C2", name |-> "random",  is_member |-> FALSE, is_mpim |-> FALSE, latest |-> 0] >>

NoChannel == [id |-> "", name |-> "", is_member |-> FALSE, is_mpim |-> FALSE, latest |-> NoLatest]

ChannelNames == {"general", "random", "secret"}   \* "secret" is not on the remote list
EvChannels == {"C1", "C2"}                        \* channel ids carried by remote events
EvUsers == {"U1", "UX"}                           \* user ids carried by remote events
ResolvableUsers == {"U1"}                         \* ids users.info answers ok for

Hash(n) == "#" \o n
IrcNames == {Hash(n) : n \in ChannelNames}
Strip(a) == CHOOSE n \in ChannelNames : Hash(n) = a

VARIABLES
    \* ---- Client (irc.py)
    autojoin,          \* Client.autojoin
    remote_channels,   \* the channel list conversations.list answers with
    usersent,          \* Client._usersent
    held_events,       \* Client._held_events
    parted_channels,   \* Client.parted_channels
    out,               \* the lines written to the IRC client, in order
    pcFrom,            \* where the from_irc task is
    pcTo,              \* where the to_irc task is
    cmd,               \* the command the from_irc task is handling
    flushIdx,          \* position of the flush loop of _userhandler
    curEv,             \* the event the to_irc task is delivering
    \* ---- Slack (slack.py)
    channelscache,     \* Slack._channelscache
    join_requests,     \* conversations.join calls issued, in order
    \* ---- history of the run
    delivered,         \* ids of the events slack_event dispatched past the gate
    heldLog,           \* ids of the events slack_event appended to _held_events
    nEvents,           \* events obtained by to_irc so far
    nCmds,             \* command lines read so far
    cmdPre,            \* Client state when the current command was dispatched
    cmdResult,         \* how the last command ended
    userDone,          \* a USER command ran to its end
    \* ---- Slack (slack.py): what event(), send_message and get_members work on
    internalevents,    \* Slack._internalevents
    sent_by_self,      \* Slack._sent_by_self
    members_cache,     \* Slack._get_members_cache
    members_cursor,    \* Slack._get_members_cache_cursor
    last_timestamp,    \* Slack._status.last_timestamp
    pending,           \* the get_members calls suspended in their remote call
    evDead,            \* event() raised: the to_irc task is gone
    \* ---- the environment
    now,               \* the clock read by time()
    fetched,           \* per channel, the pages conversations.members answered with so far
    history,           \* the role of each timestamp in the joined channel's history
    \* ---- history of the run
    lastOp,            \* the Slack operation that ran last
    lastRet,           \* what the last event() call returned
    lastRead,          \* what the last event() call that read the transport did
    lastGM,            \* what the last get_members call did
    lastPop,           \* what the last event() call that took a queued event found
    qseq,              \* the production number of each queued event
    nProduced,         \* events queued so far
    popLog,            \* the queued events event() returned, in order
    liveTouched,       \* channels whose member set a live join or leave event changed
    \* ---- users and text
    nouserlist,        \* Client.nouserlist
    magic_users_id,    \* Client._magic_users_id
    magic_regex,       \* Client._magic_regex: the names it was built from, in order
    usercache,         \* Slack._usercache: id -> name
    usermapcache,      \* Slack._usermapcache: name -> id, in insertion order
    usermapcache_keys, \* Slack._usermapcache_keys
    directory,         \* the remote's users: id -> name
    posted,            \* the messages handed to chat.postMessage / chat.meMessage, in order
    lastText,          \* the text conversion of the last PRIVMSG or round trip
    \* ---- the connection
    conn,              \* the reconnections of event() since the transport was last read
    \* ---- nickname, direct-message channels, a loop over the channel list
    nick,              \* Client.nick
    imcache,           \* Slack._imcache: user id -> direct-message channel id
    loop,              \* the `for` loop of _history over the list channels() returned
    stream             \* the reader of the client connection: open, at its end, or failing

sessVars == << autojoin, remote_channels, usersent, held_events, parted_channels, out, pcFrom, pcTo,
               cmd, flushIdx, curEv, channelscache, join_requests, delivered,
               heldLog, nEvents, nCmds, cmdPre, cmdResult, userDone >>

remVars == << internalevents, sent_by_self, members_cache, members_cursor, last_timestamp,
              pending, evDead, now, fetched, history, lastOp, lastRet, lastRead, lastGM,
              lastPop, qseq, nProduced, popLog, liveTouched >>

textVars == << nouserlist, magic_users_id, magic_regex, usercache, usermapcache,
               usermapcache_keys, directory, posted, lastText >>

ctlVars == << nick, imcache, loop, stream >>

vars == << sessVars, remVars, textVars, conn, ctlVars >>

\* ------------------------------------------------------------ lines written
Numeric(by, code, chan) == [by |-> by, t |-> "NUM", code |-> code, chan |-> chan, ev |-> 0]
JoinLine(by, chan) == [by |-> by, t |-> "JOIN", code |-> 0, chan |-> chan, ev |-> 0]
PrivmsgLine(by, dest, n) == [by |-> by, t |-> "PRIVMSG", code |-> 0, chan |-> dest, ev |-> n]

ERR_NOSUCHCHANNEL == 403
RPL_TOPIC == 332
RPL_NAMREPLY == 353
RPL_ENDOFNAMES == 366
RPL_LUSERCLIENT == 251

NickDest == "nick"   \* Client.nick as the target of a line

\* _send_chan_info once the member list was obtained
ChanInfoLines(by, name) ==
    << JoinLine(by, name), Numeric(by, RPL_TOPIC, name),
       Numeric(by, RPL_NAMREPLY, name), Numeric(by, RPL_ENDOFNAMES, name) >>

WelcomeLines ==
    << Numeric("from_irc", 1, ""), Numeric("from_irc", 2, ""), Numeric("from_irc", 2, ""),
       Numeric("from_irc", 2, ""), Numeric("from_irc", RPL_LUSERCLIENT, "") >>

\* ------------------------------------------------------- Slack: channel list
\* Only the first channel of the answer is kept.
Loaded_first(channels) == SubSeq(channels, 1, 1)

\* _channels: `load(r['channels'], List[Channel])`, every channel of the answer.
Loaded(channels) == channels

\* Slack.channels(refresh) with the remote answering ok or not.
ChannelsCall(cache, refresh, apiOk) ==
    LET c0 == IF refresh THEN << >> ELSE cache IN
    IF c0 # << >> THEN [ok |-> TRUE, cache |-> c0]
    ELSE IF apiOk THEN [ok |-> TRUE, cache |-> Loaded(remote_channels)]
    ELSE [ok |-> FALSE, cache |-> << >>]

FindBy(list, key, value) ==
    IF \E i \in 1..Len(list) : list[i][key] = value
    THEN list[CHOOSE i \in 1..Len(list) :
                 list[i][key] = value /\ \A j \in 1..(i-1) : list[j][key] # value]
    ELSE NoChannel

\* The two passes of get_channel / get_channel_by_name: the cached list, then
\* a refreshed one.  res is "found", "keyerror" or "error" (the remote call failed).
TwoPass(cache, key, value, api0, api1) ==
    LET r0 == ChannelsCall(cache, FALSE, api0) IN
    IF ~r0.ok THEN [res |-> "error", chan |-> NoChannel, cache |-> r0.cache]
    ELSE IF FindBy(r0.cache, key, value) # NoChannel
         THEN [res |-> "found", chan |-> FindBy(r0.cache, key, value), cache |-> r0.cache]
    ELSE LET r1 == ChannelsCall(r0.cache, TRUE, api1) IN
         IF ~r1.ok THEN [res |-> "error", chan |-> NoChannel, cache |-> r1.cache]
         ELSE IF FindBy(r1.cache, key, value) # NoChannel
              THEN [res |-> "found", chan |-> FindBy(r1.cache, key, value), cache |-> r1.cache]
         ELSE [res |-> "keyerror", chan |-> NoChannel, cache |-> r1.cache]

get_channel_by_name(cache, name, api0, api1) == TwoPass(cache, "name", name, api0, api1)

get_channel(cache, id, api0, api1) == TwoPass(cache, "id", id, api0, api1)

\* ------------------------------------------------------------ Slack: users
\* The team's users on the remote side, and the names an account can carry.
UserIds == {"U1", "U2"}
UserNames == {"bob", "bob.s", "rob"}

\* The directory the remote starts with: who carries which name.
Directory0 == [u \in UserIds |-> IF u = "U1" THEN "bob" ELSE "bob.s"]

\* The orders users.list can answer in.
UserOrders ==
    {s \in [1..Cardinality(UserIds) -> UserIds] : \A i, j \in DOMAIN s : i # j => s[i] # s[j]}

\* Slack._usermapcache is a dict: a sequence of [name, id] in insertion order; storing
\* under a name that is present keeps its place.
MapHas(um, n) == \E i \in DOMAIN um : um[i].name = n
MapGet(um, n) == um[CHOOSE i \in DOMAIN um : um[i].name = n].id
MapPut(um, n, id) ==
    IF MapHas(um, n)
    THEN [i \in DOMAIN um |-> IF um[i].name = n THEN [name |-> n, id |-> id] ELSE um[i]]
    ELSE Append(um, [name |-> n, id |-> id])
MapNames(um) == [i \in DOMAIN um |-> um[i].name]

\* Slack._usermapcache_keys: not assigned by __init__ (slack.py:323 only declares it),
\* then a list object. `addr` is the id() of a non-empty list; that of an empty one
\* is never kept by anybody.
UnsetKeys == [set |-> FALSE, addr |-> 0, names |-> << >>]
EmptyKeys == [set |-> TRUE, addr |-> 0, names |-> << >>]

\* The addresses a new list object can get. A list nobody refers to any more gives
\* its address back, so a new list may get the address of an older one.
Addresses == 1..MaxAddr

\* Function f with key k set to v.
Store(f, k, v) == [x \in DOMAIN f \cup {k} |-> IF x = k THEN v ELSE f[x]]
Drop(f, k) == [x \in DOMAIN f \ {k} |-> f[x]]

\* Slack.get_user: the cached user, or users.info; `okIds` are the ids users.info
\* answers ok for, `dir` the directory. A new name drops the key list.
get_user(us, id_, okIds, dir) ==
    IF id_ \in DOMAIN us.uc
    THEN [res |-> "ok", name |-> us.uc[id_], us |-> us]
    ELSE IF id_ \in okIds /\ id_ \in DOMAIN dir
    THEN LET n == dir[id_] IN
         [res |-> "ok", name |-> n,
          us |-> [us EXCEPT !.uc = Store(us.uc, id_, n),
                            !.keys = IF MapHas(us.um, n) THEN us.keys ELSE EmptyKeys,
                            !.um = MapPut(us.um, n, id_)]]
    ELSE [res |-> "keyerror", name |-> "", us |-> us]

\* Slack.prefetch_users: users.list answered ok with the users in `order`, or not ok.
RECURSIVE StoreUsers(_, _, _)
StoreUsers(us, order, dir) ==
    IF order = << >> THEN us
    ELSE LET u == Head(order) IN
         StoreUsers([us EXCEPT !.uc = Store(us.uc, u, dir[u]), !.um = MapPut(us.um, dir[u], u)],
                    Tail(order), dir)

prefetch_users(us, ok, order, dir) ==
    IF ok THEN [StoreUsers(us, order, dir) EXCEPT !.keys = EmptyKeys] ELSE us

\* Slack.get_usernames: the key list, made anew at address `a` when the kept one
\* is empty.
get_usernames(us, a) ==
    IF ~us.keys.set THEN [res |-> "attributeerror", us |-> us]
    ELSE IF us.keys.names # << >> THEN [res |-> "ok", us |-> us]
    ELSE [res |-> "ok",
          us |-> [us EXCEPT !.keys = [set |-> TRUE, addr |-> a, names |-> MapNames(us.um)]]]

\* ------------------------------------------------------------ Client: text
\* A text is a sequence of tokens: a word (a maximal run of word characters), one
\* other character ("://" counts as one), or one piece of Slack markup.
\* The kinds k: "w" a word, "p" another character, "mention" <@id>, "chanmention"
\* <#id|name>, "broadcast" <!here>, "entity" &amp; &gt; &lt;, "yell" yelling [nick].
Tok(k, v) == [k |-> k, v |-> v]

\* A user name as tokens.
NameTokens(n) ==
    CASE n = "bob" -> << Tok("w", "bob") >>
      [] n = "rob" -> << Tok("w", "rob") >>
      [] n = "bob.s" -> << Tok("w", "bob"), Tok("p", "."), Tok("w", "s") >>

\* The string a run of tokens spells, when it is a user name; "" otherwise.
SpelledName(toks) ==
    IF \E n \in UserNames : NameTokens(n) = toks
    THEN CHOOSE n \in UserNames : NameTokens(n) = toks
    ELSE ""

\* str.replace of the characters of _SLACK_SUBSTITUTIONS by their entities
\* (_addmagic) and back (parse_message).
Escape(text) == [i \in DOMAIN text |-> IF text[i].k = "p" /\ text[i].v \in {"&", ">", "<"} THEN Tok("entity", text[i].v) ELSE text[i]]
Unescape(text) == [i \in DOMAIN text |-> IF text[i].k = "entity" THEN Tok("p", text[i].v) ELSE text[i]]

\* '@here' -> '<!here>' and the like, every occurrence.
RECURSIVE EncodeBroadcasts(_)
EncodeBroadcasts(text) ==
    IF Len(text) < 2 THEN text
    ELSE IF text[1] = Tok("p", "@") /\ text[2].k = "w" /\ text[2].v \in {"here", "channel", "everyone"}
    THEN << Tok("broadcast", text[2].v) >> \o EncodeBroadcasts(SubSeq(text, 3, Len(text)))
    ELSE << text[1] >> \o EncodeBroadcasts(Tail(text))

DecodeBroadcasts(text) == [i \in DOMAIN text |-> IF text[i].k = "broadcast" THEN Tok("yell", text[i].v) ELSE text[i]]

\* One token of a user name used as a pattern against one token of the text: the
\* name is not escaped when the expression is built, so its "." matches any character.
TokenMatches(pat, tok) ==
    \/ pat = tok
    \/ pat = Tok("p", ".") /\ tok.k = "p" /\ tok.v # "://" /\ tok.v # "\n"

\* \bname\b at position p. Names begin and end with a word, and the words of a text
\* are maximal, so both \b hold wherever the tokens match.
PlainMatch(text, p, n) ==
    LET pat == NameTokens(n) IN
    /\ p + Len(pat) - 1 <= Len(text)
    /\ \A i \in DOMAIN pat : TokenMatches(pat[i], text[p + i - 1])

\* The alternative ((://\S*){0,1}\bname\b) at position p: with the "://" group when
\* it can (greedy: the last place the name is found before a space), without it
\* otherwise.
AltMatch(text, p, n) ==
    LET ends == IF text[p] = Tok("p", "://")
                THEN {q \in (p + 1)..Len(text) :
                         /\ \A i \in (p + 1)..(q - 1) : ~(text[i].k = "p" /\ text[i].v \in {" ", "\n"})
                         /\ PlainMatch(text, q, n)}
                ELSE {}
    IN IF ends # {}
       THEN LET q == CHOOSE x \in ends : \A y \in ends : y <= x IN
            [hit |-> TRUE, len |-> q + Len(NameTokens(n)) - p, url |-> TRUE]
       ELSE IF PlainMatch(text, p, n)
       THEN [hit |-> TRUE, len |-> Len(NameTokens(n)), url |-> FALSE]
       ELSE [hit |-> FALSE, len |-> 0, url |-> FALSE]

\* The expression is the alternatives joined with "|" in the order of the names:
\* at a position the first alternative that matches wins.
RegexMatch(text, p, regex) ==
    IF \E k \in DOMAIN regex : AltMatch(text, p, regex[k]).hit
    THEN LET k == CHOOSE x \in DOMAIN regex :
                     /\ AltMatch(text, p, regex[x]).hit
                     /\ \A y \in 1..(x - 1) : ~AltMatch(text, p, regex[y]).hit
         IN AltMatch(text, p, regex[k])
    ELSE [hit |-> FALSE, len |-> 0, url |-> FALSE]

\* re.finditer: the matches from left to right, none overlapping another.
RECURSIVE FindMatches(_, _, _)
FindMatches(text, p, regex) ==
    IF p > Len(text) THEN << >>
    ELSE LET m == RegexMatch(text, p, regex) IN
         IF m.hit
         THEN << [start |-> p, len |-> m.len, url |-> m.url] >> \o FindMatches(text, p + m.len, regex)
         ELSE FindMatches(text, p + 1, regex)

\* The loop of _addmagic over the matches, last match first: one inside a URL is
\* left alone, another becomes the mention of the user found under the matched text.
RECURSIVE ReplaceMatches(_, _, _)
ReplaceMatches(text, matches, us) ==
    IF matches = << >> THEN [res |-> "ok", text |-> text]
    ELSE LET m == matches[Len(matches)]
             rest == SubSeq(matches, 1, Len(matches) - 1)
             username == SpelledName(SubSeq(text, m.start, m.start + m.len - 1))
         IN IF m.url THEN ReplaceMatches(text, rest, us)
            ELSE IF ~MapHas(us.um, username) THEN [res |-> "keyerror", text |-> text]
            ELSE ReplaceMatches(SubSeq(text, 1, m.start - 1)
                                    \o << Tok("mention", MapGet(us.um, username)) >>
                                    \o SubSeq(text, m.start + m.len, Len(text)),
                                rest, us)

\* The users the expression is built from: the kept expression when the key list has
\* the id the expression was built for, the names of the key list otherwise.
MagicRegex(us, keys) == IF us.mid = keys.addr THEN us.mre ELSE keys.names

\* Client._addmagic on a line typed by the IRC user; `a` is the address a new key
\* list gets.
addmagic(us, msg, a) ==
    LET t == EncodeBroadcasts(Escape(msg))
        g == get_usernames(us, a)
    IN IF g.res # "ok" THEN [res |-> g.res, text |-> t, us |-> us]
       ELSE IF g.us.keys.names = << >> THEN [res |-> "assertionerror", text |-> t, us |-> g.us]
       ELSE LET regex == MagicRegex(g.us, g.us.keys)
                us1 == [g.us EXCEPT !.mid = g.us.keys.addr, !.mre = regex]
                r == ReplaceMatches(t, FindMatches(t, 1, regex), us1)
            IN [res |-> r.res, text |-> r.text, us |-> us1]

\* The first loop of parse_message: the leftmost mention becomes the name of its
\* user, until no mention is left.
RECURSIVE DecodeMentions(_, _, _, _)
DecodeMentions(us, text, okIds, dir) ==
    IF \A i \in DOMAIN text : text[i].k # "mention" THEN [res |-> "ok", text |-> text, us |-> us]
    ELSE LET i == CHOOSE x \in DOMAIN text :
                     text[x].k = "mention" /\ \A y \in 1..(x - 1) : text[y].k # "mention"
             g == get_user(us, text[i].v, okIds, dir)
         IN IF g.res # "ok" THEN [res |-> g.res, text |-> text, us |-> g.us]
            ELSE DecodeMentions(g.us,
                                SubSeq(text, 1, i - 1) \o NameTokens(g.name) \o SubSeq(text, i + 1, Len(text)),
                                okIds, dir)

\* The second loop: <#id|name> becomes #name.
RECURSIVE DecodeChanMentions(_)
DecodeChanMentions(text) ==
    IF text = << >> THEN << >>
    ELSE (IF text[1].k = "chanmention" THEN << Tok("p", "#"), Tok("w", text[1].v) >> ELSE << text[1] >>)
            \o DecodeChanMentions(Tail(text))

\* Client.parse_message on the text of a remote message.
parse_message(us, text, okIds, dir) ==
    LET d == DecodeMentions(us, text, okIds, dir) IN
    IF d.res # "ok" THEN d
    ELSE [d EXCEPT !.text = DecodeBroadcasts(Unescape(DecodeChanMentions(d.text)))]

\* ------------------------------------------------------------ Client: events
\* Client._message for a message event: what it does to the line log.
\*   "crash": get_user raised (the exception leaves slack_event),
\*   "drop":  the channel lookup failed with another error, or the channel is parted,
\*   "write": one PRIVMSG line.
MessageOutcome(by, ev, parted, cache, api0, api1) ==
    IF ev.user \notin ResolvableUsers
    THEN [res |-> "crash", lines |-> << >>, cache |-> cache]
    ELSE LET g == get_channel(cache, ev.channel, api0, api1)
             dest == IF g.res = "found" THEN Hash(g.chan.name) ELSE NickDest
         IN IF g.res = "error" THEN [res |-> "drop", lines |-> << >>, cache |-> g.cache]
            ELSE IF dest \in parted THEN [res |-> "drop", lines |-> << >>, cache |-> g.cache]
            ELSE [res |-> "write", lines |-> << PrivmsgLine(by, dest, ev.n) >>, cache |-> g.cache]

\* The JOIN or PART line of a member of a channel, written for the event n.
MemberLine(by, t, dest, n) == [by |-> by, t |-> t, code |-> 0, chan |-> dest, ev |-> n]

\* _joined_parted for a Join or Leave event: get_user and get_channel are awaited
\* outside any try; nothing is written for a channel of the parted set.
JoinedPartedOutcome(by, ev, parted, cache, api0, api1) ==
    IF ev.user \notin ResolvableUsers
    THEN [res |-> "crash", lines |-> << >>, cache |-> cache]
    ELSE LET g == get_channel(cache, ev.channel, api0, api1)
         IN IF g.res # "found" THEN [res |-> "crash", lines |-> << >>, cache |-> g.cache]
            ELSE IF Hash(g.chan.name) \in parted
            THEN [res |-> "drop", lines |-> << >>, cache |-> g.cache]
            ELSE [res |-> "write", cache |-> g.cache,
                  lines |-> << MemberLine(by, IF ev.kind = "member_joined_channel"
                                              THEN "JOIN" ELSE "PART",
                                          Hash(g.chan.name), ev.n) >>]

\* slack_event past the gate, by the kind of the event: a GroupJoined event goes to
\* _send_chan_info for the channel it carries (an exception of get_members leaves
\* slack_event), a Join or Leave event to _joined_parted, a message goes to _message.
EventOutcome(by, ev, parted, cache, api0, api1, membersOk) ==
    IF ev.kind = "group_joined"
    THEN IF membersOk
         THEN [res |-> "write", cache |-> cache,
               lines |-> ChanInfoLines(by, Hash(FindBy(RemoteChannels, "id", ev.channel).name))]
         ELSE [res |-> "crash", lines |-> << >>, cache |-> cache]
    ELSE IF ev.kind \in {"member_joined_channel", "member_left_channel"}
    THEN JoinedPartedOutcome(by, ev, parted, cache, api0, api1)
    ELSE MessageOutcome(by, ev, parted, cache, api0, api1)

\* The events event() hands to the outbound task: messages to the joined channel,
\* from a user that resolves and from one that does not, and a GroupJoined event.
EventShapes ==
    {[kind |-> "message", channel |-> "C1", user |-> u] : u \in EvUsers}
        \cup {[kind |-> "group_joined", channel |-> "C2", user |-> ""]}

NoEvent == [n |-> 0, kind |-> "", channel |-> "", user |-> ""]
NoCmd == [name |-> "", arg |-> ""]
\* No text conversion yet.
NoText == [op |-> "none", arg |-> << >>, text |-> << >>, res |-> "none"]

\* The user caches and the mention matcher, as the text operators take them.
Users ==
    [uc |-> usercache, um |-> usermapcache, keys |-> usermapcache_keys,
     mid |-> magic_users_id, mre |-> magic_regex]

\* No loop over the channel list is running.  list: what the list object the loop
\* iterates holds now; shared: that object is still the one _channelscache refers to;
\* idx: the elements the iterator has passed; first: what the list held when the loop
\* got it; visited: the channels the loop body ran for; emptied: channels() found
\* the cache emptied by a refresh that was waiting for its answer.
NoLoop == [on |-> FALSE, list |-> << >>, shared |-> FALSE, idx |-> 0, first |-> << >>,
           visited |-> << >>, emptied |-> FALSE]

NoPre == [parted |-> {}, outLen |-> 0, joins |-> 0, usersent |-> FALSE, held |-> << >>, nick |-> ""]

Snapshot == [parted |-> parted_channels, outLen |-> Len(out), joins |-> Len(join_requests),
             usersent |-> usersent, held |-> held_events, nick |-> nick]

\* ------------------------------------------------------------------- Init
\* The Client after construction; list is the channel list the remote holds.
InitClient(list) ==
    /\ autojoin \in BOOLEAN
    /\ remote_channels = list
    /\ usersent = FALSE
    /\ held_events = << >>
    /\ parted_channels = {}
    /\ out = << >>
    /\ pcFrom = "idle"
    /\ pcTo = "idle"
    /\ cmd = NoCmd
    /\ flushIdx = 0
    /\ curEv = NoEvent
    /\ channelscache = << >>
    /\ join_requests = << >>
    /\ delivered = << >>
    /\ heldLog = << >>
    /\ nEvents = 0
    /\ nCmds = 0
    /\ cmdPre = NoPre
    /\ cmdResult = "none"
    /\ userDone = FALSE
    /\ magic_users_id = 0
    /\ magic_regex = << >>
    /\ lastText = NoText
    /\ nick = ""
    /\ stream = "open"
    /\ loop = NoLoop

InitSession == InitClient(RemoteChannels) /\ nouserlist = TRUE

\* --------------------------------------------------- from_irc: dispatch
\* from_irc reads one line and Client.command routes it to its handler.
Dispatch(name, arg) ==
    /\ pcFrom = "idle"
    /\ nCmds < MaxCmds
    /\ nCmds' = nCmds + 1
    /\ cmd' = [name |-> name, arg |-> arg]
    /\ cmdPre' = Snapshot
    /\ cmdResult' = "running"

\* The from_irc task ends with an exception: irc_listener stops waiting and
\* asyncio.run tears the session down, the to_irc task with it.
FromIrcDies ==
    /\ pcFrom' = "dead"
    /\ pcTo' = "dead"
    /\ cmdResult' = "crashed"

\* ------------------------------------------------------ from_irc: USER
\* _userhandler up to its first remote call: the welcome numerics.
CmdUser ==
    /\ Dispatch("USER", "")
    /\ out' = out \o WelcomeLines
    /\ pcFrom' = "user"
    /\ UNCHANGED << autojoin, remote_channels, usersent, held_events, parted_channels, pcTo, flushIdx, curEv,
                    channelscache, join_requests, delivered, heldLog, nEvents, userDone >>
    /\ UNCHANGED remVars
    /\ UNCHANGED textVars
    /\ UNCHANGED conn
    /\ UNCHANGED ctlVars

MPIM_HIDE_DELAY == 50

\* Only the channels silent for longer than the delay are passed over.
AutojoinSkips_onlyOld(ch) == ch.is_mpim /\ ch.latest # NoLatest /\ ch.latest > MPIM_HIDE_DELAY

\* A multi-party-direct channel the auto-join loop passes over:
\* `sl_chan.is_mpim and (sl_chan.latest is None or sl_chan.latest.timestamp < mpim_cutoff)`.
AutojoinSkips(ch) == ch.is_mpim /\ (ch.latest = NoLatest \/ ch.latest > MPIM_HIDE_DELAY)

\* The auto-join loop announces the channel.
AutojoinJoins(ch) == ch.is_member /\ ~AutojoinSkips(ch)

RECURSIVE AutojoinLines(_)
AutojoinLines(list) ==
    IF list = << >> THEN << >>
    ELSE LET ch == Head(list) IN
         (IF AutojoinJoins(ch)
          THEN ChanInfoLines("from_irc", Hash(ch.name)) ELSE << >>)
         \o AutojoinLines(Tail(list))

AllChannelNames(list) == {Hash(list[i].name) : i \in 1..Len(list)}

\* The flush without the final reset of the list.
HeldAfterFlush_kept == held_events

\* The value _userhandler leaves in _held_events after the flush.
HeldAfterFlush == << >>

\* _userhandler from the channel list to the registration flag.  failAt: the place
\* in the list of the channel whose _send_chan_info raises (0: none does).
UserRegister ==
    /\ pcFrom = "user"
    /\ \E apiOk \in BOOLEAN : \E failAt \in 0..Len(remote_channels) :
         LET r == ChannelsCall(channelscache, FALSE, apiOk) IN
         /\ channelscache' = r.cache
         /\ IF ~r.ok
            THEN /\ FromIrcDies
                 /\ UNCHANGED << usersent, held_events, parted_channels, out, flushIdx, userDone >>
            ELSE IF autojoin /\ failAt \in DOMAIN r.cache /\ AutojoinJoins(r.cache[failAt])
            THEN /\ out' = out \o AutojoinLines(SubSeq(r.cache, 1, failAt - 1))
                 /\ FromIrcDies
                 /\ UNCHANGED << usersent, held_events, parted_channels, flushIdx, userDone >>
            ELSE /\ IF autojoin
                    THEN /\ out' = out \o AutojoinLines(r.cache)
                         /\ UNCHANGED parted_channels
                    ELSE /\ parted_channels' = parted_channels \cup AllChannelNames(r.cache)
                         /\ UNCHANGED out
                 /\ usersent' = TRUE
                 /\ IF held_events = << >>
                    THEN /\ held_events' = HeldAfterFlush
                         /\ userDone' = TRUE
                         /\ cmdResult' = "ok"
                         /\ pcFrom' = "idle"
                         /\ flushIdx' = 0
                    ELSE /\ pcFrom' = "user_flush"
                         /\ flushIdx' = 1
                         /\ UNCHANGED << held_events, userDone, cmdResult >>
                 /\ UNCHANGED pcTo
    /\ IF autojoin /\ ~nouserlist
       THEN \E listOk \in BOOLEAN : \E order \in UserOrders :
                LET us == prefetch_users(Users, listOk, order, directory)
                IN /\ usercache' = us.uc
                   /\ usermapcache' = us.um
                   /\ usermapcache_keys' = us.keys
       ELSE UNCHANGED << usercache, usermapcache, usermapcache_keys >>
    /\ UNCHANGED << autojoin, remote_channels, cmd, curEv, join_requests, delivered, heldLog, nEvents, nCmds, cmdPre >>
    /\ UNCHANGED << nouserlist, magic_users_id, magic_regex, directory, posted, lastText >>
    /\ UNCHANGED conn
    /\ UNCHANGED ctlVars
    /\ UNCHANGED remVars

\* One turn of the flush loop of _userhandler: slack_event on the next held event.
UserFlushStep ==
    /\ pcFrom = "user_flush"
    /\ \E api0, api1, membersOk \in BOOLEAN :
         LET ev == held_events[flushIdx]
             m == EventOutcome("from_irc", ev, parted_channels, channelscache, api0, api1, membersOk)
         IN /\ channelscache' = m.cache
            /\ IF m.res = "crash"
               THEN /\ FromIrcDies
                    /\ UNCHANGED << held_events, out, flushIdx, userDone, delivered >>
               ELSE /\ out' = out \o m.lines
                    /\ delivered' = Append(delivered, ev.n)
                    /\ IF flushIdx = Len(held_events)
                       THEN /\ held_events' = HeldAfterFlush
                            /\ userDone' = TRUE
                            /\ cmdResult' = "ok"
                            /\ pcFrom' = "idle"
                            /\ flushIdx' = 0
                       ELSE /\ flushIdx' = flushIdx + 1
                            /\ UNCHANGED << held_events, userDone, cmdResult, pcFrom >>
                    /\ UNCHANGED pcTo
    /\ UNCHANGED << autojoin, remote_channels, usersent, parted_channels, cmd, curEv, join_requests, heldLog,
                    nEvents, nCmds, cmdPre >>
    /\ UNCHANGED remVars
    /\ UNCHANGED textVars
    /\ UNCHANGED conn
    /\ UNCHANGED ctlVars

\* The channels the IRC user leaves: one on the remote list, one that is not.
PartNames == {"#random", "#secret"}

\* ------------------------------------------------------ from_irc: JOIN
\* _joinhandler up to its first remote call: the name leaves the parted set.
CmdJoin(arg) ==
    /\ Dispatch("JOIN", arg)
    /\ parted_channels' = parted_channels \ {arg}
    /\ pcFrom' = "join_lookup"
    /\ UNCHANGED << autojoin, remote_channels, usersent, held_events, out, pcTo, flushIdx, curEv, channelscache,
                    join_requests, delivered, heldLog, nEvents, userDone >>
    /\ UNCHANGED remVars
    /\ UNCHANGED textVars
    /\ UNCHANGED conn
    /\ UNCHANGED ctlVars

\* cmdResult keeps the first failure of a command.
FirstFailure(cur, new) == IF cur = "running" THEN new ELSE cur

\* The same without the return: the handler goes on to the remote join.
JoinLookupFailed_noreturn ==
    /\ out' = Append(out, Numeric("from_irc", ERR_NOSUCHCHANNEL, cmd.arg))
    /\ pcFrom' = "join_remote"
    /\ cmdResult' = "lookup_failed"

\* _joinhandler when get_channel_by_name raised: the reply, and the return.
JoinLookupFailed ==
    /\ out' = Append(out, Numeric("from_irc", ERR_NOSUCHCHANNEL, cmd.arg))
    /\ pcFrom' = "idle"
    /\ cmdResult' = "lookup_failed"

\* _joinhandler: the channel is resolved by name.
JoinLookup ==
    /\ pcFrom = "join_lookup"
    /\ \E api0, api1 \in BOOLEAN :
         LET g == get_channel_by_name(channelscache, Strip(cmd.arg), api0, api1) IN
         /\ channelscache' = g.cache
         /\ IF g.res # "found"
            THEN JoinLookupFailed
            ELSE /\ pcFrom' = IF g.chan.is_member THEN "join_info" ELSE "join_remote"
                 /\ UNCHANGED << out, cmdResult >>
    /\ UNCHANGED << autojoin, remote_channels, usersent, held_events, parted_channels, pcTo, cmd, flushIdx, curEv,
                    join_requests, delivered, heldLog, nEvents, nCmds, cmdPre, userDone >>
    /\ UNCHANGED remVars
    /\ UNCHANGED textVars
    /\ UNCHANGED conn
    /\ UNCHANGED ctlVars

\* _joinhandler: conversations.join for a channel the account is not in.  A refusal
\* is answered with a numeric; the handler goes on to _send_chan_info either way.
JoinRemote ==
    /\ pcFrom = "join_remote"
    /\ join_requests' = Append(join_requests, Strip(cmd.arg))
    /\ \E apiOk \in BOOLEAN :
         IF apiOk
         THEN UNCHANGED << out, cmdResult >>
         ELSE /\ out' = Append(out, Numeric("from_irc", ERR_NOSUCHCHANNEL, cmd.arg))
              /\ cmdResult' = FirstFailure(cmdResult, "join_refused")
    /\ pcFrom' = "join_info"
    /\ UNCHANGED << autojoin, remote_channels, usersent, held_events, parted_channels, pcTo, cmd, flushIdx, curEv,
                    channelscache, delivered, heldLog, nEvents, nCmds, cmdPre, userDone >>
    /\ UNCHANGED remVars
    /\ UNCHANGED textVars
    /\ UNCHANGED conn
    /\ UNCHANGED ctlVars

\* _joinhandler: _send_chan_info; an exception in it (get_members refused) is
\* answered with a numeric.
JoinInfo ==
    /\ pcFrom = "join_info"
    /\ \E membersOk \in BOOLEAN :
         IF membersOk
         THEN /\ out' = out \o ChanInfoLines("from_irc", cmd.arg)
              /\ cmdResult' = FirstFailure(cmdResult, "ok")
         ELSE /\ out' = Append(out, Numeric("from_irc", ERR_NOSUCHCHANNEL, cmd.arg))
              /\ cmdResult' = FirstFailure(cmdResult, "info_failed")
    /\ pcFrom' = "idle"
    /\ UNCHANGED << autojoin, remote_channels, usersent, held_events, parted_channels, pcTo, cmd, flushIdx, curEv,
                    channelscache, join_requests, delivered, heldLog, nEvents, nCmds, cmdPre,
                    userDone >>
    /\ UNCHANGED remVars
    /\ UNCHANGED textVars
    /\ UNCHANGED conn
    /\ UNCHANGED ctlVars

\* ------------------------------------------------------ from_irc: PART
\* The set is left as it was.
Parted_same(parted, name) == parted

\* `self.parted_channels.add(name)`: name is the rest of the line.
Parted(parted, name) == parted \cup {name}

\* _parthandler.
CmdPart(arg) ==
    /\ Dispatch("PART", arg)
    /\ parted_channels' = Parted(parted_channels, arg)
    /\ pcFrom' = "idle"
    /\ UNCHANGED << autojoin, remote_channels, usersent, held_events, out, pcTo, flushIdx, curEv, channelscache,
                    join_requests, delivered, heldLog, nEvents, userDone >>
    /\ UNCHANGED remVars
    /\ UNCHANGED textVars
    /\ UNCHANGED conn
    /\ UNCHANGED ctlVars

\* -------------------------------------------------------------- to_irc
\* The gate is never closed.
GateClosed_never(flag) == FALSE

\* slack_event: `if not self._usersent`.
GateClosed(flag) == ~flag

\* to_irc obtains an event and hands it to slack_event: held while the client has
\* not registered, dispatched otherwise.
ToIrcEvent ==
    /\ pcTo = "idle"
    /\ pcFrom # "dead"
    /\ nEvents < MaxEvents
    /\ \E shape \in EventShapes :
         LET ev == [n |-> nEvents + 1, kind |-> shape.kind, channel |-> shape.channel,
                    user |-> shape.user] IN
         IF GateClosed(usersent)
         THEN /\ held_events' = Append(held_events, ev)
              /\ heldLog' = Append(heldLog, ev.n)
              /\ UNCHANGED << pcTo, curEv >>
         ELSE /\ curEv' = ev
              /\ pcTo' = "deliver"
              /\ UNCHANGED << held_events, heldLog >>
    /\ nEvents' = nEvents + 1
    /\ UNCHANGED << autojoin, remote_channels, usersent, parted_channels, out, pcFrom, cmd, flushIdx,
                    channelscache, join_requests, delivered, nCmds, cmdPre, cmdResult, userDone >>
    /\ UNCHANGED remVars
    /\ UNCHANGED textVars
    /\ UNCHANGED conn
    /\ UNCHANGED ctlVars

\* slack_event past the gate: the event is written (or the task dies).
ToIrcDeliver ==
    /\ pcTo = "deliver"
    /\ \E api0, api1, membersOk \in BOOLEAN :
         LET m == EventOutcome("to_irc", curEv, parted_channels, channelscache, api0, api1, membersOk) IN
         /\ channelscache' = m.cache
         /\ IF m.res = "crash"
            THEN /\ pcTo' = "dead"
                 /\ UNCHANGED << out, delivered >>
            ELSE /\ pcTo' = "idle"
                 /\ out' = out \o m.lines
                 /\ delivered' = Append(delivered, curEv.n)
    /\ curEv' = NoEvent
    /\ UNCHANGED << autojoin, remote_channels, usersent, held_events, parted_channels, pcFrom, cmd, flushIdx,
                    join_requests, heldLog, nEvents, nCmds, cmdPre, cmdResult, userDone >>
    /\ UNCHANGED remVars
    /\ UNCHANGED textVars
    /\ UNCHANGED conn
    /\ UNCHANGED ctlVars

NextSession ==
    \/ CmdUser
    \/ UserRegister
    \/ UserFlushStep
    \/ \E a \in IrcNames : CmdJoin(a)
    \/ JoinLookup
    \/ JoinRemote
    \/ JoinInfo
    \/ \E a \in PartNames : CmdPart(a)
    \/ ToIrcEvent
    \/ ToIrcDeliver

\* ======================================================================
\* Slack (slack.py): event(), send_message, get_members, _history
\* ======================================================================
USELESS_EVENTS ==
    {"channel_marked", "group_marked", "mpim_marked", "hello", "dnd_updated_user",
     "reaction_added", "user_typing", "file_deleted", "file_public", "file_created",
     "desktop_notification"}

PurgeHorizon == 10

\* A typed event.  text is "text" for the text of a message and "file" for the
\* announcement of a file; ts and thread tell which message of the remote the event
\* is of (its timestamp, and the root timestamp of its thread if it is a reply).
Ev(type, channel, user, ts, thread, text) ==
    [type |-> type, channel |-> channel, user |-> user, ts |-> ts, thread |-> thread, text |-> text]
NoEv == Ev("none", "", "", 0, 0, "")

RawEvent(type, ts, channel, user) == [type |-> type, ts |-> ts, channel |-> channel, user |-> user]

\* The recorded timestamp follows the timestamp looked at last.
Advance_latest(last, ts) == ts

\* event() and _history: `if ts > self._status.last_timestamp:
\* self._status.last_timestamp = ts`.
Advance(last, ts) == IF ts > last THEN ts ELSE last

\* _triage_sent_by_self at clock value t.
Triage(sent, t) == {i \in sent : ~(t - i >= PurgeHorizon)}

\* The matched timestamp stays in the set.
EchoMatched_kept(sent, ts) == sent

\* event(): the set after a raw event matched the timestamp ts.
EchoMatched(sent, ts) == sent \ {ts}

\* event(): is the raw event the echo of a message sent by this bridge?
IsSelfEcho(sent, e) == e.ts \in sent

\* The direct-message channels of the remote (conversations.list with types=im): the
\* one with U1 and the one with U2.
RemoteIms == << [user |-> "U1", id |-> "D1"], [user |-> "U2", id |-> "D2"] >>

\* `im_id.startswith('D')`
IsDirectId(id) == id \in {"D1", "D2"}

\* The loop of get_im over the answer of get_ims: each channel is cached under its
\* user until the one asked for is met.
RECURSIVE ScanIms(_, _, _)
ScanIms(ims, cache, im_id) ==
    IF ims = << >> THEN [res |-> "none", user |-> "", id |-> "", cache |-> cache]
    ELSE LET im == Head(ims)
             c == MapPut(cache, im.user, im.id)
         IN IF im.id = im_id THEN [res |-> "found", user |-> im.user, id |-> im.id, cache |-> c]
            ELSE ScanIms(Tail(ims), c, im_id)

\* Slack.get_im: None for an id that is not of a direct-message channel, the cached
\* channel, or the one of the remote list; imsOk: conversations.list answers ok
\* (get_ims raises otherwise).  cache is _imcache: user (name) -> channel (id).
get_im(cache, im_id, imsOk) ==
    IF ~IsDirectId(im_id) THEN [res |-> "none", user |-> "", id |-> "", cache |-> cache]
    ELSE IF \E i \in DOMAIN cache : cache[i].id = im_id
    THEN LET i == CHOOSE x \in DOMAIN cache : cache[x].id = im_id
         IN [res |-> "found", user |-> cache[i].name, id |-> im_id, cache |-> cache]
    ELSE IF ~imsOk THEN [res |-> "error", user |-> "", id |-> "", cache |-> cache]
    ELSE ScanIms(RemoteIms, cache, im_id)

\* No message is taken for one of the account's own.
NotFromPeer_never(peer, sender) == FALSE

\* `im.user != msg.user`: the sender is not the other participant of the channel.
NotFromPeer(peer, sender) == peer # sender

\* `'I say: ' + msg.text`
ISay(text) == "I say: " \o text

\* The loop of event() over the raw events of one rtm_read answer, from the state st:
\*   sent, last, mcache: _sent_by_self, last_timestamp, _get_members_cache
\*   ret: the event returned (NoEv: the loop went on), crash: an exception left event()
\*   echoes: the timestamps dropped as self-echo, touched: channels whose member set changed
\*   ims: _imcache, imsOk: the answer get_ims would get, src: the raw event of ret
\*   seen: the raw events the `for` loop took from the batch, tss: their timestamps
RECURSIVE ProcessBatch(_, _, _)
ProcessBatch(batch, st, t) ==
    IF batch = << >> THEN st
    ELSE LET e == Head(batch)
             st1 == [st EXCEPT !.last = Advance(@, e.ts), !.seen = @ + 1, !.tss = @ \cup {e.ts}]
         IN IF IsSelfEcho(st1.sent, e)
            THEN ProcessBatch(Tail(batch),
                              [st1 EXCEPT !.sent = EchoMatched(@, e.ts),
                                          !.echoes = Append(@, e.ts)], t)
            ELSE IF e.type \in USELESS_EVENTS
            THEN ProcessBatch(Tail(batch), st1, t)
            ELSE IF e.type = "member_joined_channel"
            THEN IF e.channel \in DOMAIN st1.mcache
                 THEN [st1 EXCEPT !.mcache[e.channel] = @ \cup {e.user},
                                  !.touched = @ \cup {e.channel},
                                  !.ret = Ev(e.type, e.channel, e.user, 0, 0, "")]
                 ELSE [st1 EXCEPT !.crash = TRUE]
            ELSE IF e.type = "member_left_channel"
            THEN IF e.channel \in DOMAIN st1.mcache /\ e.user \in st1.mcache[e.channel]
                 THEN [st1 EXCEPT !.mcache[e.channel] = @ \ {e.user},
                                  !.touched = @ \cup {e.channel},
                                  !.ret = Ev(e.type, e.channel, e.user, 0, 0, "")]
                 ELSE [st1 EXCEPT !.crash = TRUE]
            ELSE IF e.type = "message"
            THEN LET im == get_im(st1.ims, e.channel, st1.imsOk) IN
                 IF im.res = "error"
                 THEN ProcessBatch(Tail(batch), [st1 EXCEPT !.sent = Triage(@, t)], t)
                 ELSE [st1 EXCEPT !.ims = im.cache, !.src = e,
                                  !.ret = IF im.res = "found" /\ NotFromPeer(im.user, e.user)
                                          THEN Ev("message", im.id, im.user, e.ts, 0, ISay("text"))
                                          ELSE Ev("message", e.channel, e.user, e.ts, 0, "text")]
            ELSE ProcessBatch(Tail(batch), [st1 EXCEPT !.sent = Triage(@, t)], t)

NoPending == [active |-> FALSE, chan |-> "", cursor |-> [tok |-> "none", page |-> 0], cached |-> {}, alias |-> FALSE]
NoGM == [chan |-> "", cursorAtCall |-> [tok |-> "none", page |-> 0], requested |-> FALSE, ok |-> FALSE, first |-> FALSE,
         page |-> {}, cachedBefore |-> {}, joins |-> << >>, ret |-> {}]
NoPop == [seq |-> 0, newest |-> 0, oldest |-> 0]
NoRead == [n |-> 0, returned |-> FALSE, echoes |-> << >>, src |-> RawEvent("none", 0, "", ""),
           left |-> << >>, tss |-> {}]

\* No reconnection since the transport was last read. fails: the attempts in a row
\* whose rtm_connect failed; slept: what the last of them waited; backfill: how
\* _history ended after the last rtm_connect that succeeded; asked: the channels it
\* sent a conversations.history request for; seen: the timestamps of the messages
\* it looked at.
NoConn == [fails |-> 0, slept |-> 0, backfill |-> "none", asked |-> {}, seen |-> {}]

Callers == {"from_irc", "to_irc"}

\* The Slack object after construction; h is the history the remote holds.
InitSlack(h) ==
    /\ internalevents = << >>
    /\ sent_by_self = {}
    /\ members_cache = << >>
    /\ members_cursor = << >>
    /\ last_timestamp = 0
    /\ pending = [k \in Callers |-> NoPending]
    /\ evDead = FALSE
    /\ now = 0
    /\ fetched = << >>
    /\ history = h
    /\ lastOp = "none"
    /\ lastRet = NoEv
    /\ lastRead = NoRead
    /\ lastGM = NoGM
    /\ lastPop = NoPop
    /\ qseq = << >>
    /\ nProduced = 0
    /\ popLog = << >>
    /\ liveTouched = {}
    /\ usercache = << >>
    /\ usermapcache = << >>
    /\ usermapcache_keys = UnsetKeys
    /\ directory = Directory0
    /\ posted = << >>
    /\ conn = NoConn
    /\ imcache = << >>

InitRemote == InitSlack(<< >>)

\* A suspended get_members call that read the member set of the cache holds the very
\* set object: what event() adds to or removes from it shows in the call's local too.
AliasUpdate(pend, mcache) ==
    [k \in Callers |->
        IF pend[k].active /\ pend[k].alias /\ pend[k].chan \in DOMAIN mcache
        THEN [pend[k] EXCEPT !.cached = mcache[pend[k].chan]]
        ELSE pend[k]]

\* event() with an empty internal queue and rtm_read answering with a batch.
EventRead(batch) ==
    /\ ~evDead
    /\ internalevents = << >>
    /\ \E imsOk \in (IF \E i \in DOMAIN batch : IsDirectId(batch[i].channel) THEN BOOLEAN ELSE {TRUE}) :
       LET st0 == [sent |-> sent_by_self, last |-> last_timestamp, mcache |-> members_cache,
                   ret |-> NoEv, crash |-> FALSE, echoes |-> << >>, touched |-> {},
                   ims |-> imcache, imsOk |-> imsOk, src |-> NoRead.src, seen |-> 0, tss |-> {}]
       IN \E st \in {ProcessBatch(batch, st0, now)} :
          /\ imcache' = st.ims
          /\ sent_by_self' = st.sent
          /\ last_timestamp' = st.last
          /\ members_cache' = st.mcache
          /\ pending' = AliasUpdate(pending, st.mcache)
          /\ evDead' = st.crash
          /\ lastRet' = st.ret
          /\ lastRead' = [n |-> Len(batch), returned |-> st.ret # NoEv, echoes |-> st.echoes,
                           src |-> st.src, left |-> SubSeq(batch, st.seen + 1, Len(batch)),
                           tss |-> st.tss]
          /\ liveTouched' = liveTouched \cup st.touched
    /\ lastOp' = "read"
    /\ lastGM' = NoGM /\ lastPop' = NoPop /\ popLog' = << >>
    /\ UNCHANGED << internalevents, members_cursor, now, fetched, history, qseq, nProduced >>
    /\ UNCHANGED sessVars
    /\ UNCHANGED textVars
    /\ conn' = NoConn
    /\ UNCHANGED << nick, loop, stream >>

\* send_message: the remote answers ok with the timestamp ts (0: none), or not ok.
SendMessage(ok, ts) ==
    /\ IF ok /\ ts # 0
       THEN sent_by_self' = sent_by_self \cup {ts}
       ELSE UNCHANGED sent_by_self
    /\ lastOp' = "send"
    /\ UNCHANGED << internalevents, members_cache, members_cursor, last_timestamp, pending,
                    evDead, now, fetched, history, lastRet, lastRead, lastGM, lastPop, qseq,
                    nProduced, popLog, liveTouched >>
    /\ UNCHANGED sessVars
    /\ UNCHANGED textVars
    /\ UNCHANGED conn
    /\ UNCHANGED ctlVars

\* The clock values that tell the ages apart: before the horizon, and an entry
\* stamped 1..MaxTs being just younger than, exactly, or older than the horizon.
ClockValues == {0, PurgeHorizon} \cup {PurgeHorizon + i : i \in 1..MaxTs}

\* The clock advances, by any amount.
Tick(t) ==
    /\ t > now
    /\ now' = t
    /\ lastOp' = "tick"
    /\ UNCHANGED << internalevents, sent_by_self, members_cache, members_cursor, last_timestamp,
                    pending, evDead, fetched, history, lastRet, lastRead, lastGM, lastPop,
                    qseq, nProduced, popLog, liveTouched >>
    /\ UNCHANGED sessVars
    /\ UNCHANGED textVars
    /\ UNCHANGED conn
    /\ UNCHANGED ctlVars

\* ---- rtm_read answers drawn in SpecEcho: messages, noise, and events of no known shape
EchoRaw == {RawEvent(ty, ts, "C1", "U1") : ty \in {"message", "user_typing", "pong"}, ts \in 0..MaxTs}

RECURSIVE SeqsUpTo(_, _)
SeqsUpTo(S, n) ==
    IF n = 0 THEN {<< >>}
    ELSE LET shorter == SeqsUpTo(S, n - 1) IN
         shorter \cup {Append(q, x) : q \in {r \in shorter : Len(r) = n - 1}, x \in S}

EchoBatches == SeqsUpTo(EchoRaw, MaxBatch)

InitEcho == InitSession /\ InitRemote /\ autojoin = FALSE

NextEcho ==
    \/ \E batch \in EchoBatches : EventRead(batch)
    \/ \E ok \in BOOLEAN, ts \in 0..MaxTs : SendMessage(ok, ts)
    \/ \E t \in ClockValues : Tick(t)

SpecEcho == InitEcho /\ [][NextEcho]_vars

\* The Client with its two tasks; the Slack side is idle.
InitBridge == InitSession /\ InitRemote

SpecSession == InitBridge /\ [][NextSession]_vars

\* ======================================================================
\* Slack.get_members and the internal event queue (slack.py)
\* ======================================================================
\* A stored cursor: absent or None (tok "none"), the exhausted cursor '' (tok ""),
\* or the token next_cursor of the answer that carried the page before `page`.
NoCursor == [tok |-> "none", page |-> 0]
Exhausted == [tok |-> "", page |-> 0]
PageCursor(i) == [tok |-> "next", page |-> i]

\* dict.get with its default, and d[k] = v.
CacheGet(cache, id_) == IF id_ \in DOMAIN cache THEN cache[id_] ELSE {}
CursorGet(cursors, id_) == IF id_ \in DOMAIN cursors THEN cursors[id_] ELSE NoCursor
\* What was fetched for a channel: whether one page or more (n: 0, 1, 2), and their ids.
NoPages == [n |-> 0, ids |-> {}]
PagesGet(pages, id_) == IF id_ \in DOMAIN pages THEN pages[id_] ELSE NoPages
AddPage(pg, newusers) == [n |-> IF pg.n = 0 THEN 1 ELSE 2, ids |-> pg.ids \cup newusers]
Put(f, k, v) == [x \in DOMAIN f \cup {k} |-> IF x = k THEN v ELSE f[x]]

\* The exhausted cursor is not recognised.
CursorExhausted_never(cursor) == FALSE

\* get_members: `if cursor == ''`.
CursorExhausted(cursor) == cursor = Exhausted

\* Every fetch is taken for a later one.
FirstIteration_never(cache, id_) == FALSE

\* get_members: the negation of `if id_ in self._get_members_cache`.
FirstIteration(cache, id_) == id_ \notin DOMAIN cache

\* The page a request asks for: `if cursor: kwargs['cursor'] = cursor`.
PageOf(cursor) == IF cursor.tok = "next" THEN cursor.page ELSE 1

\* What the remote may put in response_metadata.next_cursor after page i: the token of
\* the next page, '' at the end, or nothing at all (r.get(...).get(...) is then None).
NextCursors(i) == {Exhausted, NoCursor} \cup (IF i < MaxPages THEN {PageCursor(i + 1)} ELSE {})

\* The orders a for loop may walk a set in.
Orders(S) == {f \in [1..Cardinality(S) -> S] : \A i, j \in DOMAIN f : i # j => f[i] # f[j]}

\* The new event goes to the head of the list.
Enqueue_front(q, e) == << e >> \o q

\* self._internalevents.append(e)
Enqueue(q, e) == Append(q, e)

RECURSIVE EnqueueAll(_, _)
EnqueueAll(q, es) == IF es = << >> THEN q ELSE EnqueueAll(Enqueue(q, Head(es)), Tail(es))

\* The production numbers n+1 .. n+k.
Numbers(n, k) == [i \in 1..k |-> n + i]

\* The first queued event is taken.
PopIndex_first(q) == 1

\* list.pop() takes the last element.
PopIndex(q) == Len(q)

RemoveAt(q, i) == SubSeq(q, 1, i - 1) \o SubSeq(q, i + 1, Len(q))

SeqMax(q) == CHOOSE x \in {q[i] : i \in DOMAIN q} : \A y \in {q[i] : i \in DOMAIN q} : y <= x
SeqMin(q) == CHOOSE x \in {q[i] : i \in DOMAIN q} : \A y \in {q[i] : i \in DOMAIN q} : x <= y

\* get_members(c) by the task k, up to its return or to the await of the remote call.
GetMembers(k, c) ==
    /\ ~pending[k].active
    /\ LET cached == CacheGet(members_cache, c)
           cursor == CursorGet(members_cursor, c)
           call == [NoGM EXCEPT !.chan = c, !.cursorAtCall = cursor, !.cachedBefore = cached]
       IN IF CursorExhausted(cursor)
          THEN /\ lastGM' = [call EXCEPT !.ret = cached]
               /\ lastOp' = "get_members"
               /\ UNCHANGED << pending >>
          ELSE /\ pending' = [pending EXCEPT ![k] =
                                 [active |-> TRUE, chan |-> c, cursor |-> cursor, cached |-> cached,
                                  alias |-> c \in DOMAIN members_cache]]
               /\ lastGM' = [call EXCEPT !.requested = TRUE]
               /\ lastOp' = "gm_request"
    /\ lastRet' = NoEv /\ lastRead' = NoRead /\ lastPop' = NoPop /\ popLog' = << >>
    /\ UNCHANGED << internalevents, sent_by_self, members_cache, members_cursor, last_timestamp,
                    evDead, now, fetched, history, qseq, nProduced, liveTouched >>
    /\ UNCHANGED sessVars
    /\ UNCHANGED textVars
    /\ UNCHANGED conn
    /\ UNCHANGED ctlVars

\* The entry of the cache was replaced by a new set: a call still suspended on the
\* same channel keeps the old one.
Unalias(pend, k, c) ==
    [x \in Callers |->
        IF x = k THEN NoPending
        ELSE IF pend[x].active /\ pend[x].chan = c THEN [pend[x] EXCEPT !.alias = FALSE]
        ELSE pend[x]]

\* get_members of the task k from the answer of conversations.members on: the remote
\* answers not ok, or with a page of member ids and what it says of the next cursor.
GetMembersAnswer(k, ok, newusers, next) ==
    /\ pending[k].active
    /\ LET p == pending[k]
           c == p.chan
           before == CacheGet(members_cache, c)
           first == FirstIteration(members_cache, c)
           joinIds == IF first THEN {} ELSE newusers \ p.cached
           call == [chan |-> c, cursorAtCall |-> p.cursor, requested |-> TRUE, ok |-> ok,
                    first |-> first, page |-> newusers, cachedBefore |-> before,
                    joins |-> << >>, ret |-> {}]
       IN /\ next \in NextCursors(PageOf(p.cursor))
          /\ IF ~ok
             THEN /\ pending' = [pending EXCEPT ![k] = NoPending]
                  /\ lastGM' = call
                  /\ UNCHANGED << internalevents, qseq, nProduced, members_cache, members_cursor,
                                  fetched >>
             ELSE \E order \in Orders(joinIds) :
                  LET joins == [i \in DOMAIN order |->
                                   Ev("member_joined_channel", c, order[i], 0, 0, "")]
                  IN /\ internalevents' = EnqueueAll(internalevents, joins)
                     /\ qseq' = EnqueueAll(qseq, Numbers(nProduced, Len(joins)))
                     /\ nProduced' = nProduced + Len(joins)
                     /\ members_cache' = Put(members_cache, c, p.cached \cup newusers)
                     /\ members_cursor' = Put(members_cursor, c, next)
                     /\ pending' = Unalias(pending, k, c)
                     /\ fetched' = Put(fetched, c, AddPage(PagesGet(fetched, c), newusers))
                     /\ lastGM' = [call EXCEPT !.joins = joins, !.ret = p.cached \cup newusers]
    /\ lastOp' = "gm_answer"
    /\ lastRet' = NoEv /\ lastRead' = NoRead /\ lastPop' = NoPop /\ popLog' = << >>
    /\ UNCHANGED << sent_by_self, last_timestamp, evDead, now, history, liveTouched >>
    /\ UNCHANGED sessVars
    /\ UNCHANGED textVars
    /\ UNCHANGED conn
    /\ UNCHANGED ctlVars

\* event() with a non-empty internal queue: `return self._internalevents.pop()`.
EventPop ==
    /\ ~evDead
    /\ internalevents # << >>
    /\ LET i == PopIndex(internalevents)
       IN /\ lastRet' = internalevents[i]
          /\ internalevents' = RemoveAt(internalevents, i)
          /\ qseq' = RemoveAt(qseq, i)
          /\ lastPop' = [seq |-> qseq[i], newest |-> SeqMax(qseq), oldest |-> SeqMin(qseq)]
          /\ popLog' = Append(popLog, [ev |-> internalevents[i], seq |-> qseq[i]])
          /\ nProduced' = IF Len(internalevents) = 1 THEN 0 ELSE nProduced
    /\ lastOp' = "pop"
    /\ lastRead' = NoRead /\ lastGM' = NoGM
    /\ UNCHANGED << sent_by_self, members_cache, members_cursor, last_timestamp, pending, evDead,
                    now, fetched, history, liveTouched >>
    /\ UNCHANGED sessVars
    /\ UNCHANGED textVars
    /\ UNCHANGED conn
    /\ UNCHANGED ctlVars

\* ---- the live membership events rtm_read answers with in SpecMembers
MemberRaw ==
    {RawEvent(ty, 0, c, u) : ty \in {"member_joined_channel", "member_left_channel"},
                             c \in EvChannels, u \in EvUsers}

MemberBatches == SeqsUpTo(MemberRaw, MaxBatch)

Pages == SUBSET EvUsers

\* The channels whose members the client asks for: those it is in.
PagedChannels == {RemoteChannels[i].id : i \in {j \in DOMAIN RemoteChannels : RemoteChannels[j].is_member}}

InitMembers == InitSession /\ InitRemote /\ autojoin = TRUE

\* The inbound task pages the member sets (WHO, JOIN); the outbound task runs event().
NextMembers ==
    \/ \E c \in PagedChannels : GetMembers("from_irc", c)
    \/ \E ok \in BOOLEAN, newusers \in Pages, next \in {Exhausted, NoCursor} \cup
                                                      {PageCursor(i) : i \in 2..MaxPages} :
          GetMembersAnswer("from_irc", ok, newusers, next)
    \/ \E batch \in MemberBatches : EventRead(batch)
    \/ EventPop

SpecMembers == InitMembers /\ [][NextMembers]_vars

\* ======================================================================
\* Slack._history and Slack._thread_history: the backfill after a reconnection
\* ======================================================================
\* The role of a timestamp in the history of a channel: no message, a plain message
\* (with or without a file), the root of a thread, or a reply in the thread of root.
Role(kind, files, root) == [kind |-> kind, files |-> files, root |-> root]

Roles ==
    {Role("none", FALSE, 0), Role("plain", FALSE, 0), Role("plain", TRUE, 0), Role("root", FALSE, 0)}
        \cup {Role("reply", FALSE, t0) : t0 \in 1..(MaxHist - 1)}

\* A reply is younger than the root of its thread.
Histories ==
    {h \in [1..MaxHist -> Roles] :
        \A t \in 1..MaxHist : h[t].kind = "reply" => (h[t].root < t /\ h[h[t].root].kind = "root")}

\* A HistoryMessage: thread_ts is 0 for None.
HistoryMessage(ts, files, thread_ts) == [ts |-> ts, files |-> files, thread_ts |-> thread_ts]

\* The message the remote holds at the timestamp t.
MessageAt(h, t) ==
    HistoryMessage(t, h[t].files,
                   IF h[t].kind = "root" THEN t ELSE IF h[t].kind = "reply" THEN h[t].root ELSE 0)

\* conversations.history with oldest: the messages of the channel itself (roots, not
\* replies) from oldest on, the newest first; the pages of the answer laid end to end.
RECURSIVE HistoryAnswer(_, _, _)
HistoryAnswer(h, t, oldest) ==
    IF t < 1 \/ t < oldest THEN << >>
    ELSE (IF h[t].kind \in {"plain", "root"} THEN << MessageAt(h, t) >> ELSE << >>)
             \o HistoryAnswer(h, t - 1, oldest)

\* conversations.replies: the root and then the replies of its thread, the oldest first.
RECURSIVE RepliesAnswer(_, _, _)
RepliesAnswer(h, t, thread_id) ==
    IF t > Len(h) THEN << >>
    ELSE (IF t = thread_id \/ (h[t].kind = "reply" /\ h[t].root = thread_id)
          THEN << MessageAt(h, t) >> ELSE << >>)
             \o RepliesAnswer(h, t + 1, thread_id)

\* _thread_history keeps the messages with `i.ts != i.thread_ts`: ts is a float and
\* thread_ts a str, which never compare equal, so every message is kept.
KeptInThread(m) == TRUE

RECURSIVE Filter(_)
Filter(l) ==
    IF l = << >> THEN << >>
    ELSE (IF KeptInThread(Head(l)) THEN << Head(l) >> ELSE << >>) \o Filter(Tail(l))

\* _thread_history: the list r before `r[0].thread_ts = None`; empty when the
\* answer could not be loaded.
ThreadList(h, thread_id, threadOk) ==
    IF threadOk THEN Filter(RepliesAnswer(h, 1, thread_id)) ELSE << >>

\* r[0].thread_ts = None
ThreadHistory(r) == [r EXCEPT ![1].thread_ts = 0]

RECURSIVE Reverse(_)
Reverse(l) == IF l = << >> THEN << >> ELSE Append(Reverse(Tail(l)), Head(l))

\* `msg.thread_ts and float(msg.thread_ts) == msg.ts`
IsThreadRoot(msg) == msg.thread_ts # 0 /\ msg.thread_ts = msg.ts

\* One more event on the internal queue of the walk state st.
Produce(st, e) ==
    [st EXCEPT !.q = Enqueue(@, e), !.seqs = Enqueue(@, st.n + 1), !.n = @ + 1]

\* The `while msg_list` loop of _history for the channel ch: last0 is the timestamp
\* _history started from.  st.crash: _thread_history raised (r[0] of an empty list).
RECURSIVE Walk(_, _, _)
Walk(msg_list, st, ctx) ==
    IF msg_list = << >> THEN st
    ELSE LET msg == Head(msg_list)
             rest == Tail(msg_list)
         IN IF msg.ts = ctx.last0 THEN Walk(rest, st, ctx)
            ELSE LET st1 == [st EXCEPT !.last = Advance(@, msg.ts), !.tss = @ \cup {msg.ts}]
                     st2 == IF msg.files
                            THEN Produce(st1, Ev("message", ctx.ch, "U1", msg.ts, msg.thread_ts, "file"))
                            ELSE st1
                 IN IF IsThreadRoot(msg)
                    THEN LET r == ThreadList(ctx.h, msg.thread_ts, ctx.threadOk)
                         IN IF r = << >> THEN [st2 EXCEPT !.crash = TRUE]
                            ELSE Walk(Reverse(ThreadHistory(r)) \o rest, st2, ctx)
                    ELSE Walk(rest,
                              Produce(st2, Ev("message", ctx.ch, "U1", msg.ts, msg.thread_ts, "text")),
                              ctx)

\* The first n elements of l (all of it if it is shorter).
Take(l, n) == SubSeq(l, 1, IF n < Len(l) THEN n ELSE Len(l))

\* The `for channel in await self.channels()` loop of _history: the channels the
\* account is not in are skipped; the remote answers `got` messages before a page
\* fails to load (which ends the channel's loop).
RECURSIVE HistoryOfChannels(_, _, _, _)
HistoryOfChannels(chans, st, ctx, got) ==
    IF chans = << >> \/ st.crash THEN st
    ELSE LET channel == Head(chans)
         IN IF ~channel.is_member THEN HistoryOfChannels(Tail(chans), st, ctx, got)
            ELSE HistoryOfChannels(
                     Tail(chans),
                     Walk(Take(HistoryAnswer(ctx.h, Len(ctx.h), ctx.last0), got),
                          [st EXCEPT !.asked = @ \cup {channel.id}],
                          [ctx EXCEPT !.ch = channel.id]),
                     ctx, got)

\* The backfill is run whatever the recorded timestamp.
NoBackfillRange_never(last) == FALSE

\* _history: `if self._status.last_timestamp == 0: return`.
NoBackfillRange(last) == last = 0

\* `sleeptime = 1`, the first statement of event(): a local of the call.
sleeptime == 1

\* The delay the except branch waits after `fails` failed attempts in a row: the
\* doubling at slack.py:782-783 is of the local, which the next call sets to 1 again.
BackoffDelay(fails) == sleeptime

\* event() with an empty internal queue when rtm_read raises: rtm_connect, then
\* _history, then None is returned.  connectOk: rtm_connect succeeded; listOk: the
\* channels() call of _history succeeded.  An exception of rtm_connect or of _history
\* is caught: event() sleeps and returns None.
EventReconnect(connectOk, listOk, got, threadOk) ==
    /\ ~evDead
    /\ internalevents = << >>
    /\ IF ~connectOk
       THEN /\ conn.fails < MaxFails
            /\ conn' = [fails |-> conn.fails + 1, slept |-> BackoffDelay(conn.fails),
                        backfill |-> "none", asked |-> {}, seen |-> {}]
            /\ UNCHANGED << internalevents, qseq, nProduced, last_timestamp >>
       ELSE IF NoBackfillRange(last_timestamp)
       THEN /\ conn' = [fails |-> 0, slept |-> 0, backfill |-> "complete", asked |-> {}, seen |-> {}]
            /\ UNCHANGED << internalevents, qseq, nProduced, last_timestamp >>
       ELSE IF ~listOk
       THEN /\ conn' = [fails |-> 0, slept |-> sleeptime, backfill |-> "aborted", asked |-> {}, seen |-> {}]
            /\ UNCHANGED << internalevents, qseq, nProduced, last_timestamp >>
       ELSE LET st0 == [q |-> internalevents, seqs |-> qseq, n |-> nProduced,
                        last |-> last_timestamp, crash |-> FALSE, asked |-> {}, tss |-> {}]
                ctx == [h |-> history, last0 |-> last_timestamp, threadOk |-> threadOk, ch |-> ""]
            IN \E st \in {HistoryOfChannels(RemoteChannels, st0, ctx, got)} :
               /\ internalevents' = st.q
               /\ qseq' = st.seqs
               /\ nProduced' = st.n
               /\ last_timestamp' = st.last
               /\ conn' = IF st.crash
                          THEN [fails |-> 0, slept |-> sleeptime, backfill |-> "aborted", asked |-> st.asked,
                                seen |-> st.tss]
                          ELSE [fails |-> 0, slept |-> 0, backfill |-> "complete", asked |-> st.asked,
                                seen |-> st.tss]
    /\ lastOp' = "reconnect"
    /\ lastRet' = NoEv /\ lastRead' = NoRead /\ lastGM' = NoGM /\ lastPop' = NoPop
    /\ popLog' = << >>
    /\ UNCHANGED << sent_by_self, members_cache, members_cursor, pending, evDead, now, fetched,
                    history, liveTouched >>
    /\ UNCHANGED sessVars
    /\ UNCHANGED textVars
    /\ UNCHANGED ctlVars

\* ---- the live messages rtm_read answers with in SpecHistory
HistoryRaw == {RawEvent("message", ts, "C1", "U1") : ts \in 1..MaxTs}

HistoryBatches == SeqsUpTo(HistoryRaw, MaxBatch)

InitHistory == InitSession /\ autojoin = TRUE /\ \E h \in Histories : InitSlack(h)

NextHistory ==
    \/ \E batch \in HistoryBatches : EventRead(batch)
    \/ \E connectOk, listOk \in BOOLEAN, got \in 0..MaxHist, threadOk \in BOOLEAN :
          \* answers the call never asks for are not drawn twice
          /\ (~connectOk \/ last_timestamp = 0 \/ ~listOk) => (got = 0 /\ threadOk)
          /\ got <= Len(HistoryAnswer(history, Len(history), last_timestamp))
          /\ (~connectOk \/ last_timestamp = 0) => listOk
          /\ EventReconnect(connectOk, listOk, got, threadOk)
    \/ EventPop

SpecHistory == InitHistory /\ [][NextHistory]_vars

\* ======================================================================
\* USER with auto-join over any channel list
\* ======================================================================
\* The ages that matter: no message at all, the delay exactly, one day more.
LatestAges == {NoLatest, MPIM_HIDE_DELAY, MPIM_HIDE_DELAY + 1}

\* The channel lists the remote may hold: MaxChans channels, each joined or not,
\* multi-party-direct or not, of any of the ages.
ChannelLists ==
    {[i \in 1..MaxChans |->
         [id |-> "C" \o ToString(i), name |-> "chan" \o ToString(i), is_member |-> f[i].m, is_mpim |-> f[i].p,
          latest |-> f[i].l]] :
        f \in [1..MaxChans -> [m : BOOLEAN, p : BOOLEAN, l : LatestAges]]}

InitAutojoin == InitRemote /\ nouserlist = TRUE /\ \E list \in ChannelLists : InitClient(list)

NextAutojoin ==
    \/ CmdUser
    \/ UserRegister

SpecAutojoin == InitAutojoin /\ [][NextAutojoin]_vars

\* ======================================================================
\* Inbound commands that talk to the remote, and the text conversions
\* ======================================================================
ERR_UNKNOWNCOMMAND == 421

\* A handler that runs to its end, or raises, without a step of the other task in
\* between: from_irc reads the line, command() routes it, the handler returns or the
\* exception ends from_irc.
RunToEnd(name, arg, result) ==
    /\ pcFrom = "idle"
    /\ nCmds < MaxCmds
    /\ nCmds' = nCmds + 1
    /\ cmd' = [name |-> name, arg |-> arg]
    /\ cmdPre' = Snapshot
    /\ IF result = "crashed"
       THEN FromIrcDies
       ELSE /\ pcFrom' = "idle"
            /\ cmdResult' = result
            /\ UNCHANGED pcTo

SetUsers(us) ==
    /\ usercache' = us.uc
    /\ usermapcache' = us.um
    /\ usermapcache_keys' = us.keys
    /\ magic_users_id' = us.mid
    /\ magic_regex' = us.mre

\* The lines the IRC user types after "PRIVMSG <dest> :".
IrcTexts ==
    { << Tok("w", "hello"), Tok("p", " "), Tok("p", "@"), Tok("w", "bob") >>,
      << Tok("w", "hello"), Tok("p", " "), Tok("w", "bob") >>,
      << Tok("w", "bob"), Tok("p", "."), Tok("w", "s") >>,
      << Tok("w", "bob"), Tok("p", "-"), Tok("w", "s") >>,
      << Tok("w", "http"), Tok("p", "://"), Tok("w", "x"), Tok("p", "/"), Tok("w", "bob") >>,
      << Tok("p", "@"), Tok("w", "here"), Tok("p", " "), Tok("p", "<"), Tok("w", "rob"), Tok("p", ">") >> }

\* The PRIVMSG lines: to a channel on the list, to one that is not, to a nick, to a
\* nick no user of the remote has;
\* `action` tells whether the text came wrapped in \x01ACTION .. \x01.
PrivmsgLines ==
    {[dest |-> "#general", msg |-> t, action |-> FALSE] : t \in IrcTexts}
        \cup {[dest |-> "#general", msg |-> << Tok("w", "hello"), Tok("p", " "), Tok("w", "bob") >>, action |-> TRUE],
              [dest |-> "#secret", msg |-> << Tok("w", "hello"), Tok("p", " "), Tok("w", "bob") >>, action |-> FALSE],
              [dest |-> "bob", msg |-> << Tok("w", "hello"), Tok("p", " "), Tok("w", "bob") >>, action |-> FALSE],
              [dest |-> "nobody", msg |-> << Tok("w", "hello") >>, action |-> FALSE]}

\* Timestamp chat.postMessage answers with; 0: it did not answer ok.
PostTs == {0, 1}

\* _privmsghandler. `posted` keeps the sends of the command handled last.
CmdPrivmsg(line) ==
    \E a \in Addresses : \E m \in {addmagic(Users, line.msg, a)} :
        /\ SetUsers(m.us)
        /\ lastText' = [op |-> "addmagic", arg |-> line.msg, text |-> m.text, res |-> m.res]
        /\ IF m.res # "ok"
           THEN /\ RunToEnd("PRIVMSG", line.dest, "crashed")
                /\ posted' = << >>
                /\ UNCHANGED << channelscache, sent_by_self >>
           ELSE IF line.dest \notin IrcNames
           \* a nick: whatever goes wrong is logged and dropped (irc.py:251-258)
           THEN /\ UNCHANGED channelscache
                /\ IF ~MapHas(m.us.um, line.dest)
                   THEN /\ RunToEnd("PRIVMSG", line.dest, "dropped")
                        /\ posted' = << >>
                        /\ UNCHANGED sent_by_self
                   ELSE \E ts \in PostTs :
                        /\ RunToEnd("PRIVMSG", line.dest, IF ts # 0 THEN "ok" ELSE "dropped")
                        /\ posted' = << [channel |-> MapGet(m.us.um, line.dest), text |-> m.text,
                                         action |-> line.action] >>
                        /\ sent_by_self' = IF ts # 0 THEN sent_by_self \cup {ts} ELSE sent_by_self
           ELSE \E api0, api1 \in BOOLEAN :
                LET g == get_channel_by_name(channelscache, Strip(line.dest), api0, api1) IN
                /\ channelscache' = g.cache
                /\ IF g.res # "found"
                   THEN /\ RunToEnd("PRIVMSG", line.dest, "crashed")
                        /\ posted' = << >>
                        /\ UNCHANGED sent_by_self
                   ELSE \E ts \in PostTs :
                        /\ posted' = << [channel |-> g.chan.id, text |-> m.text, action |-> line.action] >>
                        /\ sent_by_self' = IF ts # 0 THEN sent_by_self \cup {ts} ELSE sent_by_self
                        /\ RunToEnd("PRIVMSG", line.dest, IF ts # 0 THEN "ok" ELSE "crashed")
        /\ UNCHANGED << autojoin, remote_channels, usersent, held_events, parted_channels, out,
                        flushIdx, curEv, join_requests, delivered, heldLog, nEvents, userDone >>
        /\ UNCHANGED << internalevents, members_cache, members_cursor, last_timestamp, pending,
                        evDead, now, fetched, history, lastOp, lastRet, lastRead, lastGM, lastPop,
                        qseq, nProduced, popLog, liveTouched >>
        /\ UNCHANGED << nouserlist, directory >>
        /\ UNCHANGED conn
        /\ UNCHANGED ctlVars

\* _topichandler (needUser = FALSE), _kickhandler and _invitehandler: the channel,
\* and the user for the last two, are looked up outside the try; the remote call is
\* inside it.
ChannelOp(name, chan, username, needUser) ==
    \E api0, api1, callOk \in BOOLEAN :
        LET g == get_channel_by_name(channelscache, Strip(chan), api0, api1) IN
        /\ channelscache' = g.cache
        /\ IF g.res # "found" \/ (needUser /\ ~MapHas(Users.um, username))
           THEN /\ RunToEnd(name, chan, "crashed")
                /\ UNCHANGED out
           ELSE IF callOk
           THEN /\ RunToEnd(name, chan, "ok")
                /\ UNCHANGED out
           ELSE /\ RunToEnd(name, chan, "refused")
                /\ out' = Append(out, Numeric("from_irc", ERR_UNKNOWNCOMMAND, chan))
        /\ lastText' = NoText
        /\ posted' = << >>
        /\ UNCHANGED << autojoin, remote_channels, usersent, held_events, parted_channels,
                        flushIdx, curEv, join_requests, delivered, heldLog, nEvents, userDone >>
        /\ UNCHANGED remVars
        /\ UNCHANGED << nouserlist, magic_users_id, magic_regex, usercache, usermapcache,
                        usermapcache_keys, directory >>
        /\ UNCHANGED conn
        /\ UNCHANGED ctlVars

CmdTopic(chan) ==
    /\ pcFrom = "idle"
    /\ ChannelOp("TOPIC", chan, "", FALSE)

CmdKick(chan, username) ==
    /\ pcFrom = "idle"
    /\ ChannelOp("KICK", chan, username, TRUE)

CmdInvite(chan, username) ==
    /\ pcFrom = "idle"
    /\ ChannelOp("INVITE", chan, username, TRUE)

\* event() on a user_change event: the user is dropped from the cache by id, its
\* name stays where it is (slack.py:834-840).
UserChangeEvent(u) ==
    /\ usercache' = Drop(usercache, u)
    /\ lastText' = NoText
    /\ UNCHANGED << nouserlist, magic_users_id, magic_regex, usermapcache, usermapcache_keys,
                    directory, posted >>
    /\ UNCHANGED conn
    /\ UNCHANGED ctlVars
    /\ UNCHANGED sessVars
    /\ UNCHANGED remVars

\* The remote side: a user takes a name nobody has carried so far.
Rename(u, n) ==
    /\ \A v \in UserIds : directory[v] # n /\ Directory0[v] # n
    /\ directory' = [directory EXCEPT ![u] = n]
    /\ lastText' = NoText
    /\ UNCHANGED << nouserlist, magic_users_id, magic_regex, usercache, usermapcache,
                    usermapcache_keys, posted >>
    /\ UNCHANGED conn
    /\ UNCHANGED ctlVars
    /\ UNCHANGED sessVars
    /\ UNCHANGED remVars

\* The texts of remote messages.
SlackTexts ==
    { << Tok("mention", "U1"), Tok("p", " "), Tok("mention", "U2") >>,
      << Tok("broadcast", "here"), Tok("p", " "), Tok("entity", "&"), Tok("p", " "), Tok("chanmention", "general") >>,
      << Tok("w", "hi"), Tok("p", " "), Tok("mention", "UX") >> }

\* parse_message applied to the text of a remote message.
ParseMessage(text) ==
    \E okIds \in SUBSET UserIds : \E r \in {parse_message(Users, text, okIds, directory)} :
        /\ SetUsers(r.us)
        /\ lastText' = NoText
        /\ UNCHANGED << nouserlist, directory, posted >>
        /\ UNCHANGED conn
        /\ UNCHANGED ctlVars
        /\ UNCHANGED sessVars
        /\ UNCHANGED remVars

\* parse_message applied to the mention of u, then _addmagic to what it gave.
RoundTrip(u) ==
    \E okIds \in SUBSET UserIds : \E a \in Addresses :
    \E r \in {parse_message(Users, << Tok("mention", u) >>, okIds, directory)} :
    \E m \in {addmagic(r.us, r.text, a)} :
           /\ IF r.res # "ok"
              THEN /\ SetUsers(r.us)
                   /\ lastText' = [op |-> "decode_failed", arg |-> << Tok("mention", u) >>, text |-> r.text, res |-> r.res]
              ELSE /\ SetUsers(m.us)
                   /\ lastText' = [op |-> "roundtrip", arg |-> << Tok("mention", u) >>, text |-> m.text, res |-> m.res]
           /\ UNCHANGED << nouserlist, directory, posted >>
           /\ UNCHANGED conn
           /\ UNCHANGED ctlVars
        /\ UNCHANGED conn
        /\ UNCHANGED ctlVars
           /\ UNCHANGED sessVars
           /\ UNCHANGED remVars

\* The commands that talk to the remote, with remote messages decoded in between.
InitInbound == InitClient(RemoteChannels) /\ InitRemote /\ nouserlist = FALSE

NextInbound ==
    \/ CmdUser
    \/ UserRegister
    \/ \E line \in PrivmsgLines : CmdPrivmsg(line)
    \/ \E chan \in IrcNames : CmdTopic(chan)
    \/ \E chan \in IrcNames : \E username \in UserNames : CmdKick(chan, username)
    \/ \E chan \in IrcNames : \E username \in UserNames : CmdInvite(chan, username)
    \/ \E text \in SlackTexts : ParseMessage(text)

SpecInbound == InitInbound /\ [][NextInbound]_vars

\* The text conversions over every state the user caches get into through lookups,
\* user_change events and renames.
InitText == InitClient(RemoteChannels) /\ InitRemote /\ nouserlist = FALSE /\ pcTo = "idle"

NextText ==
    \/ \E u \in UserIds : UserChangeEvent(u)
    \/ \E u \in UserIds : \E n \in UserNames : Rename(u, n)
    \/ \E text \in SlackTexts : ParseMessage(text)
    \/ \E u \in UserIds : RoundTrip(u)

SpecText == InitText /\ [][NextText]_vars

\* ======================================================================
\* Claims about the Client (checked under SpecSession)
\* ======================================================================
HeldIds == {heldLog[i] : i \in 1..Len(heldLog)}
IsHeld(n) == n \in HeldIds
IsPrefix(a, b) == Len(a) <= Len(b) /\ SubSeq(b, 1, Len(a)) = a

\* C1: the events slack_event held before registration are dispatched by the flush of
\* USER once each and in arrival order; when USER has run to its end all of them were
\* dispatched, _held_events is empty, and it stays empty (nothing is appended again).
C1_HeldFlushedOnceInOrder ==
    /\ IsPrefix(SelectSeq(delivered, IsHeld), heldLog)
    /\ userDone => /\ SelectSeq(delivered, IsHeld) = heldLog
                   /\ held_events = << >>

C1_Witness ==
    /\ userDone
    /\ Len(heldLog) = 2
    /\ SelectSeq(delivered, IsHeld) = heldLog
    /\ pcFrom = "idle"

\* C3: no event obtained after the registration flag was set is written to the client
\* before a held event (which arrived earlier).
C3_NoOvertakingDuringFlush ==
    \A i, j \in 1..Len(out) :
        (i < j /\ out[i].t = "PRIVMSG" /\ out[j].t = "PRIVMSG" /\ IsHeld(out[j].ev))
            => IsHeld(out[i].ev)

FromIrcLinesOfCmd ==
    LET IsMine(l) == l.by = "from_irc" IN
    SelectSeq(SubSeq(out, cmdPre.outLen + 1, Len(out)), IsMine)

\* C9: a JOIN whose channel lookup failed wrote exactly one 403 reply, no JOIN line,
\* and issued no conversations.join request.
C9_JoinLookupFailure ==
    (pcFrom = "idle" /\ cmd.name = "JOIN" /\ cmdResult = "lookup_failed")
        => /\ FromIrcLinesOfCmd = << Numeric("from_irc", ERR_NOSUCHCHANNEL, cmd.arg) >>
           /\ Len(join_requests) = cmdPre.joins

C9_Witness ==
    /\ pcFrom = "idle"
    /\ cmd = [name |-> "JOIN", arg |-> "#secret"]
    /\ cmdResult = "lookup_failed"
    /\ FromIrcLinesOfCmd = << Numeric("from_irc", ERR_NOSUCHCHANNEL, "#secret") >>

\* C10: a JOIN that failed (lookup failed, or the remote join was refused) left the
\* parted set as it was when the command was dispatched.
C10_FailedJoinKeepsParted ==
    (pcFrom = "idle" /\ cmd.name = "JOIN" /\ cmdResult \in {"lookup_failed", "join_refused"})
        => parted_channels = cmdPre.parted

\* ======================================================================
\* Claims about the self-echo suppression (checked under SpecEcho)
\* ======================================================================

\* C4: event() drops a raw event as self-echo only if its timestamp is in the
\* suppression set when the event is looked at; the timestamp is out of the set after
\* the call, so one recorded timestamp suppresses one event and no event of another
\* timestamp; and only send_message puts a timestamp into the set.
C4_EchoOnlyOnRecordedTimestamp ==
    [][ /\ (lastOp' # "send" => sent_by_self' \subseteq sent_by_self)
        /\ (lastOp' = "read" =>
               \A i \in 1..Len(lastRead'.echoes) :
                  /\ lastRead'.echoes[i] \in sent_by_self
                  /\ lastRead'.echoes[i] \notin sent_by_self'
                  /\ \A j \in 1..Len(lastRead'.echoes) :
                        j # i => lastRead'.echoes[j] # lastRead'.echoes[i]) ]_vars

\* An echo of timestamp 1 was dropped while the entry 2 stayed recorded.
C4_Witness ==
    /\ lastOp = "read"
    /\ lastRead.echoes = << 1 >>
    /\ sent_by_self = {2}

\* C5: right after an event() call that processed a non-empty batch of raw events, no
\* entry of the suppression set is PurgeHorizon or more units old.
C5_StaleEntriesPurgedByRead ==
    (lastOp = "read" /\ lastRead.n > 0)
        => \A i \in sent_by_self : ~(now - i >= PurgeHorizon)

\* ======================================================================
\* Claims about get_members (checked under SpecMembers)
\* ======================================================================
\* The union of the pages the remote answered with for the channel c.
PagedIds(c) == PagesGet(fetched, c).ids

\* C6: a get_members call made when the stored cursor of the channel is the exhausted
\* cursor issues no remote request, however often it is repeated, and leaves the cache
\* and the cursor as they were; it returns the cached member set, which is the union
\* of the ids of all the pages fetched before (as long as no live join or leave event,
\* which edits the cached set, was processed for the channel).
C6_ExhaustedCursorReturnsUnion ==
    lastGM.cursorAtCall = Exhausted =>
        /\ ~lastGM.requested
        /\ lastOp = "get_members" =>
              /\ lastGM.ret = CacheGet(members_cache, lastGM.chan)
              /\ lastGM.cachedBefore = CacheGet(members_cache, lastGM.chan)
              /\ CursorGet(members_cursor, lastGM.chan) = Exhausted
              /\ lastGM.chan \notin liveTouched => lastGM.ret = PagedIds(lastGM.chan)

\* Two pages were fetched, the second made the cursor exhausted, the next call returned both.
C6_Witness ==
    /\ lastOp = "get_members"
    /\ lastGM.cursorAtCall = Exhausted
    /\ ~lastGM.requested
    /\ PagesGet(fetched, lastGM.chan).n >= 2
    /\ lastGM.chan \notin liveTouched
    /\ lastGM.ret = EvUsers

\* C7: the first page fetched for a channel synthesizes no join event, whatever it
\* contains; every later fetch synthesizes exactly one join event for each id of its
\* page that was not in the cached set, and none for an id already cached.
C7_JoinsOnlyAfterFirstPage ==
    (lastOp = "gm_answer" /\ lastGM.ok) =>
        LET c == lastGM.chan
            joins == lastGM.joins
            new == lastGM.page \ lastGM.cachedBefore
        IN /\ PagesGet(fetched, c).n = 1 => joins = << >>
           /\ PagesGet(fetched, c).n > 1 =>
                 /\ Len(joins) = Cardinality(new)
                 /\ {joins[i].user : i \in DOMAIN joins} = new
                 /\ \A i \in DOMAIN joins :
                       joins[i].type = "member_joined_channel" /\ joins[i].channel = c
           /\ Len(internalevents) >= Len(joins)
           /\ SubSeq(internalevents, Len(internalevents) - Len(joins) + 1, Len(internalevents)) = joins

\* A later page with one id already cached and one new id: one join event.
C7_Witness ==
    /\ lastOp = "gm_answer"
    /\ lastGM.ok
    /\ PagesGet(fetched, lastGM.chan).n > 1
    /\ lastGM.page \cap lastGM.cachedBefore # {}
    /\ Len(lastGM.joins) = 1

\* A first page that is not empty.
C7_WitnessFirstPage ==
    /\ lastOp = "gm_answer"
    /\ lastGM.ok
    /\ PagesGet(fetched, lastGM.chan).n = 1
    /\ lastGM.page # {}

\* ======================================================================
\* Claims about the internal queue and the backfill (checked under SpecHistory)
\* ======================================================================
\* C2 as stated: the queued events are returned in the order they were produced
\* (first queued, first returned): an event() call that takes a queued event
\* takes the oldest of the queue.
C2_FirstQueuedFirstReturned ==
    lastOp = "pop" => lastPop.seq = lastPop.oldest

\* C2, amended: an event() call that finds the internal queue non-empty returns the
\* event queued last among those still queued (last queued, first returned), and
\* that event leaves the queue.
C2_LastQueuedFirstReturned ==
    lastOp = "pop" =>
        /\ lastPop.seq = lastPop.newest
        /\ \A i \in DOMAIN qseq : qseq[i] < lastPop.seq
        /\ Len(internalevents) = Len(qseq)

\* A backfill queued several events and one of them was returned.
C2_Witness ==
    /\ lastOp = "pop"
    /\ lastPop.oldest < lastPop.newest
    /\ lastRet.type = "message"

\* The event e is of a reply in the thread opened at t0.
IsReplyOf(e, t0) == e.type = "message" /\ e.thread = t0 /\ e.ts # t0

\* The event e is of a message outside any thread, younger than t0.
IsLaterNonThread(e, t0) == e.type = "message" /\ e.thread = 0 /\ e.ts > t0

\* C8: of the events of one backfill, as event() returns them, no event of a
\* non-thread message of the channel younger than a thread-opening message t0 comes
\* before the event of a reply of the thread of t0.
C8_RepliesBeforeLaterMessages ==
    \A t0 \in DOMAIN history : \A i, j \in DOMAIN popLog :
        (history[t0].kind = "root" /\ i < j /\ popLog[i].ev.channel = popLog[j].ev.channel)
            => ~(IsLaterNonThread(popLog[i].ev, t0) /\ IsReplyOf(popLog[j].ev, t0))

\* A reply was returned before a non-thread message that is younger than the root
\* and older than the reply.
C8_Witness ==
    \E t0 \in DOMAIN history : \E i, j \in DOMAIN popLog :
        /\ history[t0].kind = "root"
        /\ i < j
        /\ IsReplyOf(popLog[i].ev, t0)
        /\ IsLaterNonThread(popLog[j].ev, t0)
        /\ popLog[j].ev.ts < popLog[i].ev.ts

\* ======================================================================
\* More claims about the Client (checked under SpecSession)
\* ======================================================================
\* The lines _send_chan_info writes for a channel.
IsChanInfoLine(l, chan) ==
    /\ l.chan = chan
    /\ l.t = "JOIN" \/ (l.t = "NUM" /\ l.code \in {RPL_TOPIC, RPL_NAMREPLY, RPL_ENDOFNAMES})

\* C11: a JOIN whose channel was resolved but whose remote join request was refused
\* wrote a 403 reply and no JOIN, topic or member-list line for the channel.
C11_RefusedJoinWritesNoChannelLines ==
    (pcFrom = "idle" /\ cmd.name = "JOIN" /\ cmdResult = "join_refused")
        => /\ \E i \in DOMAIN FromIrcLinesOfCmd :
                 FromIrcLinesOfCmd[i] = Numeric("from_irc", ERR_NOSUCHCHANNEL, cmd.arg)
           /\ \A i \in DOMAIN FromIrcLinesOfCmd : ~IsChanInfoLine(FromIrcLinesOfCmd[i], cmd.arg)

\* C12: with auto-join disabled, USER handled to its end has put the name of every
\* channel of the remote list into the parted set, and at no point of its handling,
\* the flush of the held events included, did the handler write a JOIN line.
C12_NoAutojoinNoJoinLine ==
    (~autojoin /\ cmd.name = "USER")
        => /\ \A i \in DOMAIN FromIrcLinesOfCmd : FromIrcLinesOfCmd[i].t # "JOIN"
           /\ (pcFrom = "idle" /\ cmdResult = "ok")
                 => AllChannelNames(RemoteChannels) \subseteq parted_channels

\* C14: as long as the registration flag is not set, no remote event of any kind was
\* dispatched or written: the outbound task wrote no line, no PRIVMSG line exists, and
\* every event obtained so far sits in _held_events, in arrival order.
C14_GateHoldsEveryEvent ==
    ~usersent =>
        /\ \A i \in DOMAIN out : out[i].by # "to_irc" /\ out[i].t # "PRIVMSG"
        /\ delivered = << >>
        /\ pcTo # "deliver"
        /\ Len(held_events) = nEvents
        /\ \A i \in DOMAIN held_events : held_events[i].n = i

\* A GroupJoined event and a message are held while a command already wrote replies.
C14_Witness ==
    /\ ~usersent
    /\ Len(held_events) = 2
    /\ held_events[1].kind = "group_joined"
    /\ held_events[2].kind = "message"
    /\ out # << >>

\* ======================================================================
\* Claims about the auto-join of USER (checked under SpecAutojoin)
\* ======================================================================
\* The lines the handler wrote after the welcome are the JOIN, topic and member-list
\* lines of the channels of `joined`, in that order, and nothing else.
ChanInfoMatches(joined) ==
    LET lines == SubSeq(FromIrcLinesOfCmd, Len(WelcomeLines) + 1, Len(FromIrcLinesOfCmd))
    IN /\ Len(lines) = 4 * Len(joined)
       /\ \A k \in DOMAIN joined :
             LET n == Hash(joined[k].name) IN
             /\ lines[4 * k - 3] = JoinLine("from_irc", n)
             /\ lines[4 * k - 2] = Numeric("from_irc", RPL_TOPIC, n)
             /\ lines[4 * k - 1] = Numeric("from_irc", RPL_NAMREPLY, n)
             /\ lines[4 * k] = Numeric("from_irc", RPL_ENDOFNAMES, n)

UserCompleted == pcFrom = "idle" /\ cmd.name = "USER" /\ cmdResult = "ok"

\* The channels C13 says are announced: joined, and not a multi-party-direct channel
\* with a last message older than the delay.
ClaimedAnnounced(ch) ==
    ch.is_member /\ ~(ch.is_mpim /\ ch.latest # NoLatest /\ ch.latest > MPIM_HIDE_DELAY)

AmendedAnnounced(ch) ==
    ch.is_member /\ ~(ch.is_mpim /\ (ch.latest = NoLatest \/ ch.latest > MPIM_HIDE_DELAY))

HelloAtBob == << Tok("w", "hello"), Tok("p", " "), Tok("p", "@"), Tok("w", "bob") >>

\* C15: handling `PRIVMSG #general :hello @bob` when the name bob resolves to U1
\* results in exactly one remote send, to the channel id of #general, whose text is
\* exactly `hello <@U1>`.
C15_MentionSentAsMarkup ==
    (/\ pcFrom = "idle" /\ cmd = [name |-> "PRIVMSG", arg |-> "#general"] /\ cmdResult = "ok"
     /\ lastText.op = "addmagic" /\ lastText.arg = HelloAtBob
     /\ MapHas(usermapcache, "bob") /\ MapGet(usermapcache, "bob") = "U1")
        => posted = << [channel |-> "C1", text |-> << Tok("w", "hello"), Tok("p", " "), Tok("mention", "U1") >>,
                        action |-> FALSE] >>

\* C19: a failure while handling one PRIVMSG, TOPIC, KICK or INVITE (the channel
\* named cannot be resolved, the remote answers the send non-ok) is reported at most
\* as a numeric reply and does not end the inbound task.
C19_CommandFailureKeepsFromIrc ==
    (\/ cmd.name \in {"TOPIC", "KICK", "INVITE"} /\ cmd.arg = "#secret"
     \/ cmd.name = "PRIVMSG" /\ cmd.arg \in IrcNames /\ lastText.res = "ok")
        => pcFrom # "dead"


\* ======================================================================
\* Claims about the text conversions (checked under SpecText)
\* ======================================================================
\* C16: for a user id U cached under a name, decoding the markup <@U> with
\* parse_message and encoding the result with _addmagic gives <@U> again, after any
\* sequence of user-cache inserts and user_change events.
C16_DecodeEncodeRecoversMention ==
    lastText.op = "roundtrip" => (lastText.res = "ok" /\ lastText.text = lastText.arg)

\* ======================================================================
\* Claims about reconnection (checked under SpecHistory)
\* ======================================================================
\* The delay that doubles with each failure in a row, from 1, up to the ceiling.
DoublingDelay(k) == IF 2 ^ (k - 1) <= 120 THEN 2 ^ (k - 1) ELSE 120

\* C17: on failed connection attempts in a row the delay waited before the next
\* attempt doubles with each failure (1, 2, 4, ...) and never exceeds 120; after a
\* successful connection it starts again from its initial value.
C17_DelayDoublesPerFailure ==
    /\ conn.fails >= 1 => conn.slept = DoublingDelay(conn.fails)
    /\ conn.slept <= 120

\* C18: the history backfill runs once per successful handshake and the transport is
\* read again only after it has completed over every joined channel; a failed
\* handshake leads to a wait, no backfill, and event() returning no event.
C18_BackfillBeforeLiveReads ==
    [][/\ lastOp' = "reconnect" => lastRet' = NoEv
       /\ (lastOp' = "reconnect" /\ conn'.fails > conn.fails)
             => (conn'.slept >= 1 /\ conn'.backfill = "none")
       /\ (lastOp' = "reconnect" /\ conn'.fails = 0) => conn'.backfill # "none"
       /\ lastOp' = "read" => conn.backfill # "aborted"]_vars

\* ======================================================================
\* Claims about failures of remote events (checked under SpecMembers)
\* ======================================================================
\* C20: a failure while normalizing one remote event (a live join for a channel
\* whose member set was never fetched, a leave of a user absent from the cached set)
\* does not stop the outbound task: event() does not leave with an exception, which
\* to_irc would not catch.
C20_EventFailureKeepsToIrc == ~evDead
\* ======================================================================
\* Client.command and the handlers that answer from what the Client holds
\* ======================================================================
ERR_NOSUCHNICK == 401
ERR_ERRONEUSNICKNAME == 432
RPL_WHOISUSER == 311
RPL_ENDOFWHOIS == 318
RPL_CHANNELMODEIS == 324
RPL_USERHOST == 302
RPL_UNAWAY == 305
RPL_NOWAWAY == 306

\* login_info.self.name: the name of the account on the remote.
CanonicalNick == "me"

\* The keys of the `handlers` dictionary of Client.command.
Handlers ==
    {"NICK", "USER", "PING", "JOIN", "PRIVMSG", "LIST", "WHO", "MODE", "PART", "AWAY", "TOPIC",
     "KICK", "INVITE", "sendfile", "QUIT", "USERHOST", "whois"}

\* The command tokens an IRC client sends for the commands of the bridge.
TableTokens ==
    {"NICK", "USER", "PING", "JOIN", "PART", "PRIVMSG", "LIST", "WHO", "WHOIS", "MODE", "TOPIC",
     "KICK", "INVITE", "AWAY", "USERHOST", "QUIT"}

\* Tokens of lines the bridge has no command for.
OtherTokens == {"CAP", "whowas"}

\* `if cmdid in handlers`
Routed(token) == token \in Handlers

\* What the handlers of this section leave alone.
CommandFrame ==
    /\ UNCHANGED << autojoin, remote_channels, usersent, held_events, flushIdx, curEv,
                    channelscache, join_requests, delivered, heldLog, nEvents, userDone >>
    /\ UNCHANGED remVars
    /\ UNCHANGED textVars
    /\ UNCHANGED conn
    /\ UNCHANGED << imcache, loop, stream >>

\* The unknown token gets no answer.
UnknownReply_none(token) == << >>

\* `await self._sendreply(Replies.ERR_UNKNOWNCOMMAND, 'Unknown command', [cmdid])`
UnknownReply(token) == << Numeric("from_irc", ERR_UNKNOWNCOMMAND, token) >>

\* The else branch of Client.command.
CmdUnknown(token) ==
    /\ ~Routed(token)
    /\ RunToEnd(token, "", "unknown")
    /\ out' = out \o UnknownReply(token)
    /\ UNCHANGED << nick, parted_channels >>
    /\ CommandFrame

\* _nickhandler: the value is stored, then compared with the name of the account.
\* A line without a value fails to unpack (ValueError).
CmdNick(value) ==
    /\ Routed("NICK")
    /\ IF value = ""
       THEN /\ RunToEnd("NICK", value, "crashed")
            /\ UNCHANGED << nick, out >>
       ELSE /\ nick' = value
            /\ RunToEnd("NICK", value, IF value # CanonicalNick THEN "refused" ELSE "ok")
            /\ out' = IF value # CanonicalNick
                      THEN Append(out, Numeric("from_irc", ERR_ERRONEUSNICKNAME, value))
                      ELSE out
    /\ UNCHANGED parted_channels
    /\ CommandFrame

\* The line a handler that only answers writes: _pinghandler, _modehandler,
\* _userhosthandler.
PongLine(lbl) == [by |-> "from_irc", t |-> "PONG", code |-> 0, chan |-> lbl, ev |-> 0]

ReplyLine(token, arg) ==
    IF token = "PING" THEN PongLine(arg)
    ELSE IF token = "MODE" THEN Numeric("from_irc", RPL_CHANNELMODEIS, arg)
    ELSE Numeric("from_irc", RPL_USERHOST, arg)

\* PING and MODE read their first parameter: without one the handler raises
\* (ValueError at irc.py:178, IndexError at irc.py:268). USERHOST takes any number.
CmdReply(token, arg) ==
    /\ Routed(token)
    /\ IF arg = "" /\ token # "USERHOST"
       THEN /\ RunToEnd(token, arg, "crashed")
            /\ UNCHANGED out
       ELSE /\ RunToEnd(token, arg, "ok")
            /\ out' = Append(out, ReplyLine(token, arg))
    /\ UNCHANGED << nick, parted_channels >>
    /\ CommandFrame

\* _awayhandler: users.setPresence, then 306 or 305.  The call is outside any try.
CmdAway(is_away, callOk) ==
    /\ Routed("AWAY")
    /\ IF callOk
       THEN /\ RunToEnd("AWAY", "", "ok")
            /\ out' = Append(out, Numeric("from_irc", IF is_away THEN RPL_NOWAWAY ELSE RPL_UNAWAY, ""))
       ELSE /\ RunToEnd("AWAY", "", "crashed")
            /\ UNCHANGED out
    /\ UNCHANGED << nick, parted_channels >>
    /\ CommandFrame

\* The local `user` of _whoishandler is bound after the except branch.
WhoisUserBound_always(found) == TRUE

\* _whoishandler: `user` is assigned in the try only; the except branch for KeyError
\* replies and falls through to `user.real_name`.
WhoisUserBound(found) == found

\* _whoishandler for the line `<token> <name>`: get_user_by_name is a lookup in
\* _usermapcache.  With the local unbound the handler raises UnboundLocalError after
\* the 401 reply.
CmdWhois(token, name) ==
    /\ Routed(token)
    /\ LET found == MapHas(usermapcache, name)
           err == IF found THEN << >> ELSE << Numeric("from_irc", ERR_NOSUCHNICK, name) >>
       IN IF WhoisUserBound(found)
          THEN /\ RunToEnd(token, name, IF found THEN "ok" ELSE "refused")
               /\ out' = out \o err
                           \o (IF found THEN << Numeric("from_irc", RPL_WHOISUSER, name) >> ELSE << >>)
                           \o << Numeric("from_irc", RPL_ENDOFWHOIS, name) >>
          ELSE /\ RunToEnd(token, name, "crashed")
               /\ out' = out \o err
    /\ UNCHANGED << nick, parted_channels >>
    /\ CommandFrame

\* _quithandler raises IrcDisconnectError, which nothing in from_irc catches: the
\* task ends with it.
CmdQuit ==
    /\ Routed("QUIT")
    /\ pcFrom = "idle"
    /\ nCmds < MaxCmds
    /\ nCmds' = nCmds + 1
    /\ cmd' = [name |-> "QUIT", arg |-> ""]
    /\ cmdPre' = Snapshot
    /\ cmdResult' = "quit"
    /\ pcFrom' = "dead"
    /\ UNCHANGED << pcTo, out, nick, parted_channels >>
    /\ CommandFrame

\* irc_listener is woken from `await from_irc_task` by the exception, which leaves
\* asyncio.run: asyncio.run cancels the task that is left, to_irc, where it waits.
Teardown ==
    /\ pcFrom = "dead"
    /\ pcTo # "dead"
    /\ pcTo' = "dead"
    /\ UNCHANGED << autojoin, remote_channels, usersent, held_events, parted_channels, out, pcFrom,
                    cmd, flushIdx, curEv, channelscache, join_requests, delivered, heldLog,
                    nEvents, nCmds, cmdPre, cmdResult, userDone >>
    /\ UNCHANGED remVars
    /\ UNCHANGED textVars
    /\ UNCHANGED conn
    /\ UNCHANGED ctlVars

\* Every exit of the session is taken for a failure.
ExitKind_error(result) == "error"

\* The `while True` of main: IrcDisconnectError is passed over, any other exception
\* is followed by a wait; `result` is how the from_irc task ended.
ExitKind(result) == IF result = "quit" THEN "clean" ELSE "error"

\* How asyncio.run(irc_listener()) ended, if it did.
SessionExit ==
    IF pcFrom = "dead" /\ pcTo = "dead" THEN ExitKind(cmdResult) ELSE "running"

\* The PRIVMSG lines to a nick.
NickLines == {l \in PrivmsgLines : l.dest \notin IrcNames}

WhoisNames == {"bob", "nobody"}

InitCommands == InitClient(RemoteChannels) /\ InitRemote /\ nouserlist = FALSE /\ autojoin = FALSE

NextCommands ==
    \/ \E token \in TableTokens \cup OtherTokens : CmdUnknown(token)
    \/ \E value \in {"", CanonicalNick, "other"} : CmdNick(value)
    \/ \E token \in {"PING", "MODE", "USERHOST"}, arg \in {"", "x"} : CmdReply(token, arg)
    \/ \E is_away, callOk \in BOOLEAN : CmdAway(is_away, callOk)
    \/ \E token \in {"WHOIS", "whois"}, name \in WhoisNames : CmdWhois(token, name)
    \/ \E a \in PartNames : CmdPart(a)
    \/ \E line \in NickLines : CmdPrivmsg(line)
    \/ \E text \in SlackTexts : ParseMessage(text)
    \/ CmdQuit
    \/ Teardown

SpecCommands == InitCommands /\ [][NextCommands]_vars

\* The session from registration to QUIT, with the events of the remote.
NextQuit ==
    \/ CmdUser
    \/ UserRegister
    \/ UserFlushStep
    \/ ToIrcEvent
    \/ ToIrcDeliver
    \/ CmdQuit
    \/ Teardown

\* asyncio runs the callback that wakes irc_listener once the from_irc task is done.
SpecQuit == InitBridge /\ [][NextQuit]_vars /\ WF_vars(Teardown)
\* ======================================================================
\* event() and the messages of direct-message channels
\* ======================================================================
\* The account itself, writing from another client.
SelfId == "UME"

\* Live messages: in the direct channels and in a listed channel, from the other
\* participant, from the account itself, from a third user.
DirectRaw ==
    {RawEvent("message", 1, c, u) : c \in {"D1", "D2", "C1"}, u \in {"U1", "U2", SelfId}}

DirectBatches == SeqsUpTo(DirectRaw, MaxBatch)

NextDirect ==
    \/ \E batch \in DirectBatches : EventRead(batch)
    \/ \E ok \in BOOLEAN, ts \in 0..MaxTs : SendMessage(ok, ts)

SpecDirect == InitEcho /\ [][NextDirect]_vars

\* ======================================================================
\* channels(refresh=True) next to a loop over the channel list
\* ======================================================================
RPL_LIST == 322
RPL_LISTEND == 323

\* A remote list whose channels the account is all in.
JoinedList == [i \in DOMAIN RemoteChannels |-> [RemoteChannels[i] EXCEPT !.is_member = TRUE]]

\* What the remote lists after a channel was made and the two others were archived.
OtherList == << [id |-> "C3", name |-> "secret", is_member |-> TRUE, is_mpim |-> FALSE, latest |-> 0] >>

\* The lists conversations.list answers with in SpecRefresh.
RemoteLists == {JoinedList, OtherList}

\* The remote side: the list of channels changes.
RemoteChange ==
    /\ remote_channels' = IF remote_channels = JoinedList THEN OtherList ELSE JoinedList
    /\ UNCHANGED << autojoin, usersent, held_events, parted_channels, out, pcFrom, pcTo, cmd,
                    flushIdx, curEv, channelscache, join_requests, delivered, heldLog, nEvents,
                    nCmds, cmdPre, cmdResult, userDone >>
    /\ UNCHANGED remVars
    /\ UNCHANGED textVars
    /\ UNCHANGED conn
    /\ UNCHANGED ctlVars

\* `self._channelscache.clear()` empties the list object in place: a loop that
\* iterates that same object finds it empty.
Cleared(l) == IF l.shared THEN [l EXCEPT !.list = << >>] ELSE l

\* `self._channelscache = load(...)`: the field refers to a new list object.
Rebound(l) == [l EXCEPT !.shared = FALSE]

\* event() reads the transport while _history is not running.
ReadLive(batch) ==
    /\ pcTo = "idle"
    /\ EventRead(batch)

\* event() after rtm_read raised and rtm_connect succeeded: _history up to its `for`,
\* that is `await self.channels()`: the cached list object if it holds anything, the
\* answer of conversations.list otherwise (an answer that is not ok leaves _history
\* with the exception, which event() catches).
BackfillStart(listOk) ==
    /\ pcTo = "idle"
    /\ ~evDead
    /\ internalevents = << >>
    /\ ~NoBackfillRange(last_timestamp)
    /\ IF channelscache # << >> \/ listOk
       THEN /\ \E list \in {IF channelscache # << >> THEN channelscache ELSE Loaded(remote_channels)} :
                /\ channelscache' = list
                /\ loop' = [on |-> TRUE, list |-> list, shared |-> TRUE, idx |-> 0, first |-> list,
                            visited |-> << >>, emptied |-> (channelscache = << >> /\ pcFrom = "list")]
            /\ pcTo' = "backfill"
            /\ conn' = [fails |-> 0, slept |-> 0, backfill |-> "running", asked |-> {}, seen |-> {}]
       ELSE /\ conn' = [fails |-> 0, slept |-> sleeptime, backfill |-> "aborted", asked |-> {}, seen |-> {}]
            /\ UNCHANGED << channelscache, loop, pcTo >>
    /\ lastOp' = "reconnect"
    /\ lastRet' = NoEv /\ lastRead' = NoRead
    /\ UNCHANGED << autojoin, remote_channels, usersent, held_events, parted_channels, out, pcFrom,
                    cmd, flushIdx, curEv, join_requests, delivered, heldLog, nEvents, nCmds,
                    cmdPre, cmdResult, userDone >>
    /\ UNCHANGED << internalevents, sent_by_self, members_cache, members_cursor, last_timestamp,
                    pending, evDead, now, fetched, history, lastGM, lastPop, qseq, nProduced,
                    popLog, liveTouched >>
    /\ UNCHANGED textVars
    /\ UNCHANGED << nick, imcache, stream >>

\* The positions after idx of the list that hold a channel the account is in.
MembersAfter(list, idx) == {j \in DOMAIN list : j > idx /\ list[j].is_member}

\* The `for` of _history from one wait to the next: the iterator goes on over what
\* the list object holds now, passing the channels the account is not in, up to the
\* conversations.history request for the next one (the remote holds nothing newer
\* than the timestamp); at the end of the list _history returns.
BackfillStep ==
    /\ pcTo = "backfill"
    /\ loop.on
    /\ IF MembersAfter(loop.list, loop.idx) # {}
       THEN LET j == CHOOSE x \in MembersAfter(loop.list, loop.idx) :
                         \A y \in MembersAfter(loop.list, loop.idx) : x <= y
            IN /\ loop' = [loop EXCEPT !.idx = j, !.visited = Append(@, loop.list[j].id)]
               /\ conn' = [conn EXCEPT !.asked = @ \cup {loop.list[j].id}]
               /\ UNCHANGED pcTo
       ELSE /\ loop' = [loop EXCEPT !.on = FALSE]
            /\ conn' = [conn EXCEPT !.backfill = "complete"]
            /\ pcTo' = "idle"
    /\ UNCHANGED << autojoin, remote_channels, usersent, held_events, parted_channels, out, pcFrom,
                    cmd, flushIdx, curEv, channelscache, join_requests, delivered, heldLog,
                    nEvents, nCmds, cmdPre, cmdResult, userDone >>
    /\ UNCHANGED remVars
    /\ UNCHANGED textVars
    /\ UNCHANGED << nick, imcache, stream >>

\* _listhandler up to the remote call of channels(refresh=True): the cache is
\* cleared, then conversations.list is awaited.
CmdList ==
    /\ Dispatch("LIST", "")
    /\ channelscache' = << >>
    /\ loop' = Cleared(loop)
    /\ pcFrom' = "list"
    /\ UNCHANGED << autojoin, remote_channels, usersent, held_events, parted_channels, out, pcTo,
                    flushIdx, curEv, join_requests, delivered, heldLog, nEvents, userDone >>
    /\ UNCHANGED remVars
    /\ UNCHANGED textVars
    /\ UNCHANGED conn
    /\ UNCHANGED << nick, imcache, stream >>

RECURSIVE ListLines(_)
ListLines(list) ==
    IF list = << >> THEN << Numeric("from_irc", RPL_LISTEND, "") >>
    ELSE << Numeric("from_irc", RPL_LIST, Hash(Head(list).name)) >> \o ListLines(Tail(list))

\* The answer of conversations.list reaches _channels: the new list is stored and
\* _listhandler writes a 322 per channel and the 323; an answer that is not ok raises
\* ResponseException, which nothing catches.
ListAnswer(ok) ==
    /\ pcFrom = "list"
    /\ IF ok
       THEN /\ channelscache' = Loaded(remote_channels)
            /\ loop' = Rebound(loop)
            /\ out' = out \o ListLines(remote_channels)
            /\ pcFrom' = "idle"
            /\ cmdResult' = "ok"
            /\ UNCHANGED pcTo
       ELSE /\ FromIrcDies
            /\ UNCHANGED << channelscache, loop, out >>
    /\ UNCHANGED << autojoin, remote_channels, usersent, held_events, parted_channels, cmd, flushIdx,
                    curEv, join_requests, delivered, heldLog, nEvents, nCmds, cmdPre, userDone >>
    /\ UNCHANGED remVars
    /\ UNCHANGED textVars
    /\ UNCHANGED conn
    /\ UNCHANGED << nick, imcache, stream >>

InitRefresh == InitClient(JoinedList) /\ InitRemote /\ nouserlist = TRUE /\ autojoin = TRUE

NextRefresh ==
    \/ \E batch \in HistoryBatches : ReadLive(batch)
    \/ \E listOk \in BOOLEAN : BackfillStart(listOk)
    \/ BackfillStep
    \/ CmdList
    \/ \E ok \in BOOLEAN : ListAnswer(ok)
    \/ RemoteChange

SpecRefresh == InitRefresh /\ [][NextRefresh]_vars

\* ======================================================================
\* Claims about the command table and its handlers (checked under SpecCommands)
\* ======================================================================
\* The lines the command handled last has written.
NewLines == SubSeq(out, cmdPre.outLen + 1, Len(out))

\* The state of the Session and the caches of the Slack object are as they were.
SessionSame ==
    UNCHANGED << nick, parted_channels, usersent, held_events >>

CachesSame ==
    UNCHANGED << channelscache, usercache, usermapcache, usermapcache_keys, members_cache,
                 members_cursor, imcache, internalevents, sent_by_self, last_timestamp >>

\* C21: WHOIS for a nick that cannot be resolved emits the error numeric 401 followed
\* by the end-of-whois marker 318 for that nick, and the marker ends the answer to
\* every WHOIS, resolved or not.  Stated of the lines that reach _whoishandler.
C21_WhoisEndsWithMarker ==
    (cmd.name \in {"WHOIS", "whois"} /\ cmdResult # "unknown") =>
        /\ NewLines # << >>
        /\ NewLines[Len(NewLines)] = Numeric("from_irc", RPL_ENDOFWHOIS, cmd.arg)
        /\ cmd.arg = "nobody" =>
              NewLines = << Numeric("from_irc", ERR_NOSUCHNICK, cmd.arg),
                            Numeric("from_irc", RPL_ENDOFWHOIS, cmd.arg) >>

\* C22: every command token of the table (NICK, USER, PING, JOIN, PART, PRIVMSG, LIST,
\* WHO, WHOIS, MODE, TOPIC, KICK, INVITE, AWAY, USERHOST, QUIT) is routed to its
\* handler, never to the unknown-command answer.
C22_TableTokensRouted ==
    cmd.name \in TableTokens =>
        /\ cmdResult # "unknown"
        /\ Numeric("from_irc", ERR_UNKNOWNCOMMAND, cmd.name) \notin {NewLines[i] : i \in DOMAIN NewLines}

\* C23: a command whose token is not a key of the table is answered with exactly one
\* 421 and changes neither the Session (nickname, parted set, registration flag, held
\* queue) nor a cache of the Slack object; the inbound task goes on.
C23_UnknownTokenOnlyReplies ==
    [][(nCmds' = nCmds + 1 /\ ~Routed(cmd'.name)) =>
           /\ out' = Append(out, Numeric("from_irc", ERR_UNKNOWNCOMMAND, cmd'.name))
           /\ SessionSame
           /\ CachesSame
           /\ pcFrom' = "idle"]_vars

C23_Witness ==
    /\ cmd.name = "CAP"
    /\ cmdResult = "unknown"
    /\ nick = "other"
    /\ usermapcache # << >>
    /\ Len(out) = 2

\* C26: PRIVMSG to a nick that no user name resolves sends nothing to the remote,
\* writes no line to the client, and leaves the session running with its state as
\* it was.
C26_UnresolvedNickDropped ==
    (cmd.name = "PRIVMSG" /\ cmd.arg = "nobody") =>
        /\ posted = << >>
        /\ NewLines = << >>
        /\ pcFrom # "dead"
        /\ nick = cmdPre.nick /\ parted_channels = cmdPre.parted
        /\ usersent = cmdPre.usersent /\ held_events = cmdPre.held

\* C27: NICK with a value other than the name of the account is answered with 432
\* and the value is not taken as the nickname; NICK with the name of the account is
\* not answered with an error.
C27_RejectedNickNotAdopted ==
    (cmd.name = "NICK" /\ cmd.arg # "") =>
        IF cmd.arg # CanonicalNick
        THEN /\ NewLines = << Numeric("from_irc", ERR_ERRONEUSNICKNAME, cmd.arg) >>
             /\ nick # cmd.arg
        ELSE NewLines = << >>

C24_QuitStopsBothTasks ==
    /\ (cmd.name = "QUIT") ~> (pcFrom = "dead" /\ pcTo = "dead" /\ SessionExit = "clean")
    /\ [][(pcFrom = "dead" /\ pcTo = "dead") => (out' = out /\ nCmds' = nCmds /\ nEvents' = nEvents)]_vars

C24_Witness ==
    /\ cmd.name = "QUIT"
    /\ pcFrom = "dead" /\ pcTo = "dead"
    /\ delivered # << >>
    /\ userDone
\* ======================================================================
\* Claims about the reconnection without a recorded timestamp (checked under SpecHistory)
\* ======================================================================
\* C29: with no last-processed timestamp recorded (0), a reconnection whose handshake
\* succeeds sends no history request for any channel and queues no event.
C29_NoTimestampNoBackfill ==
    [][(lastOp' = "reconnect" /\ last_timestamp = 0 /\ conn'.fails = 0) =>
           /\ conn'.asked = {}
           /\ internalevents' = internalevents
           /\ nProduced' = nProduced
           /\ last_timestamp' = 0]_vars

C29_Witness ==
    /\ lastOp = "reconnect"
    /\ last_timestamp = 0
    /\ conn.fails = 0
    /\ conn.backfill = "complete"
    /\ \E t \in DOMAIN history : history[t].kind = "plain"
\* ======================================================================
\* Claims about direct messages (checked under SpecDirect)
\* ======================================================================
\* The other participant of a direct-message channel of the remote.
Peer(c) == RemoteIms[CHOOSE i \in DOMAIN RemoteIms : RemoteIms[i].id = c].user

\* C25: a plain message of a direct-message channel whose sender is not the other
\* participant of the channel is returned by event() as a message of that participant
\* in that channel with the text prefixed by "I say: "; a message of the other
\* participant, or of a channel that is not direct, is returned with its user and
\* text as they came.
C25_DirectMessageRewritten ==
    (lastOp = "read" /\ lastRet.type = "message") =>
        LET e == lastRead.src IN
        /\ lastRet.channel = e.channel
        /\ IF IsDirectId(e.channel) /\ e.user # Peer(e.channel)
           THEN lastRet.user = Peer(e.channel) /\ lastRet.text = "I say: text"
           ELSE lastRet.user = e.user /\ lastRet.text = "text"

C25_Witness ==
    /\ lastOp = "read"
    /\ lastRead.src = RawEvent("message", 1, "D2", SelfId)
    /\ lastRet.user = "U2"
    /\ lastRet.text = "I say: text"
    /\ Len(imcache) = 2
\* ======================================================================
\* Claims about the channel cache across a wait (checked under SpecRefresh)
\* ======================================================================
\* The ids of the channels of the list the account is in, in the order of the list.
RECURSIVE MemberIds(_)
MemberIds(list) ==
    IF list = << >> THEN << >>
    ELSE (IF Head(list).is_member THEN << Head(list).id >> ELSE << >>) \o MemberIds(Tail(list))

\* C30: no cache is left in an intermediate state across a wait for the remote: while
\* channels(refresh=True) waits for its answer the other task does not find the
\* channel cache emptied, and a loop of the other task over the channel list it got
\* earlier (the backfill loop of _history) still visits every channel of that list.
C30_NoIntermediateCacheState ==
    /\ ~loop.emptied
    /\ (~loop.on /\ loop.first # << >>) => loop.visited = MemberIds(loop.first)
\* ======================================================================
\* get_members called by both tasks for the same channel
\* ======================================================================
\* The member list the remote holds for every channel, cut into two pages, and the
\* next_cursor it answers page i with.
RemotePage(i) == IF i = 1 THEN {"U1"} ELSE {"UX"}
RemoteNext(i) == IF i = 1 THEN PageCursor(2) ELSE Exhausted

\* The union of the pages 1..i.
RECURSIVE PagesUpTo(_)
PagesUpTo(i) == IF i = 0 THEN {} ELSE RemotePage(i) \cup PagesUpTo(i - 1)

\* event() of the to_irc task while no get_members call of that task is waiting.
LiveRead(batch) ==
    /\ ~pending["to_irc"].active
    /\ EventRead(batch)

\* Both tasks page the member sets (WHO and JOIN in from_irc, the channel listing of a
\* join event in to_irc); the remote answers a request for a page with that page.
NextOverlap ==
    \/ \E k \in Callers, c \in PagedChannels : GetMembers(k, c)
    \/ \E k \in Callers, ok \in BOOLEAN :
          GetMembersAnswer(k, ok, RemotePage(PageOf(pending[k].cursor)),
                           RemoteNext(PageOf(pending[k].cursor)))
    \/ \E batch \in MemberBatches : LiveRead(batch)
    \/ EventPop

SpecOverlap == InitMembers /\ [][NextOverlap]_vars

\* ======================================================================
\* Claims about overlapping get_members calls (checked under SpecOverlap)
\* ======================================================================
\* C31: when two get_members calls for the same channel overlap, no join event is
\* synthesized for an id of the first page of the channel, and the member set and
\* the cursor that are stored are those a single call would store.
C31_OverlapLikeSingleCall ==
    (lastOp = "gm_answer" /\ lastGM.ok) =>
        LET i == PageOf(lastGM.cursorAtCall)
        IN /\ \A j \in DOMAIN lastGM.joins : lastGM.joins[j].user \notin RemotePage(1)
           /\ CacheGet(members_cache, lastGM.chan) = PagesUpTo(i)
           /\ CursorGet(members_cursor, lastGM.chan) = RemoteNext(i)
\* ======================================================================
\* event() and a transport read that answers with several raw events
\* ======================================================================
\* Raw events of one channel: messages and a type event() passes over.
BatchRaw == {RawEvent(ty, ts, "C1", "U1") : ty \in {"message", "user_typing"}, ts \in 1..MaxTs}

\* rtm_read answers with up to one raw event more than the other specifications draw.
Batches == SeqsUpTo(BatchRaw, MaxBatch + 1)

NextBatch ==
    \/ \E batch \in Batches : EventRead(batch)
    \/ \E ok \in BOOLEAN, ts \in 0..MaxTs : SendMessage(ok, ts)

SpecBatch == InitEcho /\ [][NextBatch]_vars

\* ======================================================================
\* Claims about the raw events of one read (checked under SpecBatch)
\* ======================================================================
\* A raw event event() would return a typed event for: its timestamp is not one of
\* the recorded sends and its type is one of the shapes event() knows.
Typed(e) ==
    /\ ~IsSelfEcho(sent_by_self, e)
    /\ e.type \in {"message", "member_joined_channel", "member_left_channel"}

\* C32: when one read of the transport answers with several raw events, returning
\* the first typed event of the batch does not discard the raw events that follow
\* it: none that normalizes to a typed event is left behind when event() returns
\* (the batch is a local of event(), so what is left then is never returned).
C32_BatchFullyReturned ==
    lastOp = "read" => \A i \in DOMAIN lastRead.left : ~Typed(lastRead.left[i])
\* C33: once the membership cursor of a channel is the exhausted cursor, the cached
\* member set of the channel changes only when event() processes a live join or
\* leave of that channel; no get_members call changes the set or the cursor.
C33_ExhaustedChangesOnlyLive ==
    [][\A c \in EvChannels :
          CursorGet(members_cursor, c) = Exhausted =>
              /\ CursorGet(members_cursor', c) = Exhausted
              /\ CacheGet(members_cache', c) # CacheGet(members_cache, c) =>
                    /\ lastOp' = "read"
                    /\ lastRet'.channel = c
                    /\ lastRet'.type \in {"member_joined_channel", "member_left_channel"}]_vars
\* ======================================================================
\* The two user caches while names change hands on the remote
\* ======================================================================
\* The remote side: a user takes a name no user carries now (somebody may have
\* carried it before).
TakeName(u, n) ==
    /\ \A v \in UserIds : directory[v] # n
    /\ directory' = [directory EXCEPT ![u] = n]
    /\ lastText' = NoText
    /\ UNCHANGED << nouserlist, magic_users_id, magic_regex, usercache, usermapcache,
                    usermapcache_keys, posted >>
    /\ UNCHANGED conn
    /\ UNCHANGED ctlVars
    /\ UNCHANGED sessVars
    /\ UNCHANGED remVars

\* A call of get_user(id_); users.info answers ok or not.
GetUser(id_, ok) ==
    \E r \in {get_user(Users, id_, IF ok THEN {id_} ELSE {}, directory)} :
        /\ SetUsers(r.us)
        /\ lastText' = [op |-> "get_user", arg |-> << Tok("mention", id_) >>, text |-> << >>,
                        res |-> r.res]
        /\ UNCHANGED << nouserlist, directory, posted >>
        /\ UNCHANGED conn
        /\ UNCHANGED ctlVars
        /\ UNCHANGED sessVars
        /\ UNCHANGED remVars

\* A call of prefetch_users(); users.list answers ok with the users in `order`, or not ok.
PrefetchUsers(ok, order) ==
    /\ SetUsers(prefetch_users(Users, ok, order, directory))
    /\ lastText' = [op |-> "prefetch_users", arg |-> << >>, text |-> << >>,
                    res |-> IF ok THEN "ok" ELSE "failed"]
    /\ UNCHANGED << nouserlist, directory, posted >>
    /\ UNCHANGED conn
    /\ UNCHANGED ctlVars
    /\ UNCHANGED sessVars
    /\ UNCHANGED remVars

NextNames ==
    \/ \E u \in UserIds : \E n \in UserNames : TakeName(u, n)
    \/ \E u \in UserIds : \E ok \in BOOLEAN : GetUser(u, ok)
    \/ \E ok \in BOOLEAN : \E order \in UserOrders : PrefetchUsers(ok, order)
    \/ \E u \in UserIds : UserChangeEvent(u)

SpecNames == InitText /\ [][NextNames]_vars

\* ======================================================================
\* Claims about the two user caches (checked under SpecNames)
\* ======================================================================
\* C34: for every user id in the id-keyed cache, the name-keyed cache maps the name
\* of that user to an entry with the same id, after any sequence of prefetch_users,
\* get_user and user_change events (which drop the id-keyed entry only).
C34_UserCachesAgree ==
    \A u \in DOMAIN usercache :
        MapHas(usermapcache, usercache[u]) /\ MapGet(usermapcache, usercache[u]) = u
\* ======================================================================
\* Claims about the content of the channel cache (checked under SpecRefresh)
\* ======================================================================
\* C35: in every state either task can observe, the channel cache is empty or the
\* complete list of one successful conversations.list answer: never a part of a
\* list, never a list put together from two answers, a failed refresh included.
C35_CacheEmptyOrComplete == channelscache \in {<< >>} \cup RemoteLists

\* A refresh that was answered replaced the list the backfill loop had got by the
\* list the remote holds now.
C35_Witness ==
    /\ cmd.name = "LIST" /\ cmdResult = "ok" /\ pcFrom = "idle"
    /\ loop.first = JoinedList
    /\ channelscache = OtherList
\* ======================================================================
\* Claims about the recorded timestamp (checked under SpecHistory)
\* ======================================================================
MaxOf(S) == CHOOSE x \in S : \A y \in S : y <= x

\* C36: the recorded last-processed timestamp never decreases; after a backfill, and
\* after event() has processed raw events, it is the maximum of the value it had
\* and of the timestamps of all the messages and events that were looked at.
C36_TimestampIsRunningMaximum ==
    [][/\ last_timestamp' >= last_timestamp
       /\ lastOp' = "read" => last_timestamp' = MaxOf({last_timestamp} \cup lastRead'.tss)
       /\ lastOp' = "reconnect" => last_timestamp' = MaxOf({last_timestamp} \cup conn'.seen)]_vars

\* A backfill that looked at two messages or more and left the timestamp of the
\* newest of them.
C36_Witness ==
    /\ lastOp = "reconnect"
    /\ Cardinality(conn.seen) >= 2
    /\ last_timestamp = MaxOf(conn.seen)

\* event() read an event older than the recorded timestamp and kept the timestamp.
OlderEventRead ==
    /\ lastOp = "read"
    /\ lastRead.tss # {}
    /\ last_timestamp > MaxOf(lastRead.tss)
\* ======================================================================
\* PART and JOIN of a channel while its remote events arrive
\* ======================================================================
\* The part messages of the PART lines: none, or one.
PartReasons == {"", "bye"}

\* What `cmd.split(b' ', 1)` leaves after the token of "PART <channel>" or
\* "PART <channel> :<part message>".
RestOfLine(chan, reason) == IF reason = "" THEN chan ELSE chan \o " :" \o reason

\* to_irc obtains a Join or Leave event of the joined channel and hands it to
\* slack_event.
ToIrcMember ==
    /\ pcTo = "idle"
    /\ pcFrom # "dead"
    /\ nEvents < MaxEvents
    /\ \E kind \in {"member_joined_channel", "member_left_channel"} :
         LET ev == [n |-> nEvents + 1, kind |-> kind, channel |-> "C1", user |-> "U1"] IN
         IF GateClosed(usersent)
         THEN /\ held_events' = Append(held_events, ev)
              /\ heldLog' = Append(heldLog, ev.n)
              /\ UNCHANGED << pcTo, curEv >>
         ELSE /\ curEv' = ev
              /\ pcTo' = "deliver"
              /\ UNCHANGED << held_events, heldLog >>
    /\ nEvents' = nEvents + 1
    /\ UNCHANGED << autojoin, remote_channels, usersent, parted_channels, out, pcFrom, cmd, flushIdx,
                    channelscache, join_requests, delivered, nCmds, cmdPre, cmdResult, userDone >>
    /\ UNCHANGED remVars
    /\ UNCHANGED textVars
    /\ UNCHANGED conn
    /\ UNCHANGED ctlVars

\* The account is in #general: _joinhandler goes from the lookup to _send_chan_info.
NextPart ==
    \/ CmdUser
    \/ UserRegister
    \/ UserFlushStep
    \/ \E reason \in PartReasons : CmdPart(RestOfLine("#general", reason))
    \/ CmdJoin("#general")
    \/ JoinLookup
    \/ JoinInfo
    \/ ToIrcEvent
    \/ ToIrcMember
    \/ ToIrcDeliver

SpecPart == InitBridge /\ [][NextPart]_vars

\* ======================================================================
\* Claims about parted channels (checked under SpecPart)
\* ======================================================================
\* The command handled last is a PART of the channel chan: no JOIN came since.
PartedLast(chan) ==
    cmd.name = "PART" /\ \E reason \in PartReasons : cmd.arg = RestOfLine(chan, reason)

\* The lines a step writes.
Written == SubSeq(out', Len(out) + 1, Len(out'))

\* C37: between a PART of a channel and a later JOIN of the same channel no PRIVMSG
\* line and no JOIN or PART notice of a member that comes from a remote event of
\* the channel is written to the client (after the JOIN they are written again).
C37_PartedChannelSilent ==
    [][(PartedLast("#general") /\ cmd' = cmd) =>
          \A i \in DOMAIN Written :
              ~(Written[i].chan = "#general" /\ Written[i].ev # 0
                  /\ Written[i].t \in {"PRIVMSG", "JOIN", "PART"})]_vars
\* ======================================================================
\* from_irc when the connection of the client ends
\* ======================================================================
\* The client side: the connection reaches its end (readline returns b'' from then
\* on) or breaks (readline raises).
StreamEnds ==
    /\ stream = "open"
    /\ stream' \in {"eof", "failed"}
    /\ UNCHANGED << nick, imcache, loop >>
    /\ UNCHANGED sessVars
    /\ UNCHANGED remVars
    /\ UNCHANGED textVars
    /\ UNCHANGED conn

\* from_irc: `except Exception: raise IrcDisconnectError()` around readline; the task
\* ends the way it does after QUIT.
ReadFails ==
    /\ stream = "failed"
    /\ pcFrom = "idle"
    /\ pcFrom' = "dead"
    /\ cmdResult' = "quit"
    /\ UNCHANGED << autojoin, remote_channels, usersent, held_events, parted_channels, out, pcTo,
                    cmd, flushIdx, curEv, channelscache, join_requests, delivered, heldLog,
                    nEvents, nCmds, cmdPre, userDone >>
    /\ UNCHANGED remVars
    /\ UNCHANGED textVars
    /\ UNCHANGED conn
    /\ UNCHANGED ctlVars

\* from_irc at the end of the stream: readline returns b'', which goes to command()
\* as an empty line, an unknown token.  The reply is written to a connection whose
\* other side is gone: the write goes through (writeOk) or drain raises.
ReadEof(writeOk) ==
    /\ stream = "eof"
    /\ IF writeOk
       THEN CmdUnknown("")
       ELSE /\ RunToEnd("", "", "crashed")
            /\ UNCHANGED << out, nick, parted_channels >>
            /\ CommandFrame

\* from_irc reads a line of the open connection.
ReadLine ==
    /\ stream = "open"
    /\ \/ \E token \in TableTokens \cup OtherTokens : CmdUnknown(token)
       \/ \E value \in {CanonicalNick, "other"} : CmdNick(value)
       \/ \E a \in PartNames : CmdPart(a)
       \/ CmdQuit

NextStream ==
    \/ ReadLine
    \/ StreamEnds
    \/ ReadFails
    \/ \E writeOk \in BOOLEAN : ReadEof(writeOk)
    \/ ToIrcEvent
    \/ Teardown

SpecStream == InitBridge /\ [][NextStream]_vars

\* ======================================================================
\* Claims about the end of the client connection (checked under SpecStream)
\* ======================================================================
\* C38: when the connection of the client reaches end-of-stream or fails on read,
\* the from_irc task ends the session with the disconnect signal: it dispatches no
\* command line after that, and when it ends it ends the way QUIT ends it.
C38_StreamEndEndsSession ==
    [][(stream # "open" /\ pcFrom = "idle") =>
          /\ nCmds' = nCmds
          /\ pcFrom' = "dead" => cmdResult' = "quit"]_vars
\* ======================================================================
\* Claims about _addmagic before any user is known (checked under SpecCommands)
\* ======================================================================
\* C39: _addmagic, run for every PRIVMSG, completes when no user name is known yet
\* (neither prefetch_users nor get_user has filled the name cache) and returns the
\* text without any mention markup, rather than failing the command.
C39_AddMagicWithoutNames ==
    (lastText.op = "addmagic" /\ usermapcache = << >>) =>
        /\ lastText.res = "ok"
        /\ \A i \in DOMAIN lastText.text : lastText.text[i].k # "mention"
        /\ pcFrom # "dead"

====
